---- MODULE Spec2Model ----
(***************************************************************************)
(* Verification model of envie's dependency-resolution and environment-    *)
(* topology engine (src/src/common/service_discovery.rs and                *)
(* src/src/common/environment.rs) and of the output and deploy commands    *)
(* built on it (src/src/commands/output.rs, src/src/commands/deploy.rs).   *)
(*                                                                         *)
(* Strings of the program are modelled by what the code does with them:    *)
(*  - a path or a dependency token is the sequence of its "/"-separated    *)
(*    components (Comps);                                                  *)
(*  - an environment token, a workspace name and a project name are        *)
(*    sequences of atoms drawn from a prefix-free alphabet, so that        *)
(*    concatenation is \o, equality is sequence equality and starts_with   *)
(*    is the sequence-prefix test.                                         *)
(***************************************************************************)
EXTENDS Integers, Sequences, FiniteSets, TLC

VARIABLES
    services,       \* ServiceRegistry.services: name -> [path, depends]
    dphase,         \* dependency resolver: "registry" (being populated) or "resolved"
    target,         \* the service_name passed to resolve_dependencies
    result,         \* what resolve_dependencies returned
    descriptors,    \* the file system: directory -> what its .envie file holds
    manifest,       \* the file system: the workspace manifest at the root
    kphase,         \* discovery: "files" (being written) or "discovered"
    registry,       \* what discover_from_path returned
    resolver,       \* the EnvironmentResolver
    ephase,         \* "none" (not constructed), "ready" or "resolved"
    env_ref,        \* the token passed to resolve_environment
    rule,           \* the branch of resolve_environment that was taken
    resolved,       \* what resolve_environment returned
    key_call,       \* the latest call of generate_state_key: inputs and key
    prev_call,      \* the call of generate_state_key before the latest one
    rendered,       \* what generate_backend_config returned for the latest call
    out_fs,         \* the file system: deployment directory -> its condition
    ophase,         \* output command: "setup" or "combined"
    out_tokens,     \* the dependencies passed to get_combined_output
    out_result,     \* what get_combined_output returned, and the queries it made
    combined,       \* merge_outputs: the map merged into
    merge_before,   \* merge_outputs: the map as it was before the latest merge
    merge_new,      \* merge_outputs: the map merged in by the latest merge
    dmodules,       \* deploy: service.modules, each with the modules it depends on
    deploy_pc,      \* deploy: "config", the operation about to run, "done" or "failed"
    dmod,           \* deploy: index in service.modules of the module being deployed
    ops,            \* deploy: the operations run so far, with their outcome
    applying,       \* deploy: the modules whose terraform apply is running
    applied,        \* deploy: the modules whose terraform apply succeeded
    deploy_result,  \* deploy: what execute returned
    deploy_run,     \* deploy: the options of the run and how its plan came out
    roots,          \* lookup by path: service name -> DiscoveredService.path
    fphase,         \* lookup by path: "registry" or "found"
    query,          \* lookup by path: the path passed to find_service_by_path
    found,          \* lookup by path: what find_service_by_path returned
    name_call,      \* token resolution: the latest call of resolve_dependency_name
    content,        \* scanner: the lines of the configuration text
    sphase,         \* scanner: "text" (being written) or "scanned"
    scanned,        \* scanner: what scan_content returned
    provisioner,    \* destroy: the Provisioner's workspaces and the selected one
    destroy_pc,     \* destroy: "idle", the operation about to run, "done" or "failed"
    destroy_run,    \* destroy: the command run, its options and local variables
    destroy_log,    \* destroy: the operations invoked so far, with their outcome
    destroy_result  \* destroy: what the command returned

depVars == <<services, dphase, target, result>>

discVars == <<descriptors, manifest, kphase, registry>>

envVars == <<resolver, ephase, env_ref, rule, resolved>>

keyVars == <<key_call, prev_call, rendered>>

outVars == <<out_fs, ophase, out_tokens, out_result>>

mergeVars == <<combined, merge_before, merge_new>>

deployVars ==
    <<dmodules, deploy_pc, dmod, ops, applying, applied, deploy_result, deploy_run>>

findVars == <<roots, fphase, query, found>>

nameVars == <<name_call>>

scanVars == <<content, sphase, scanned>>

destroyVars == <<provisioner, destroy_pc, destroy_run, destroy_log, destroy_result>>

vars == <<depVars, discVars, envVars, keyVars, outVars, mergeVars, deployVars, findVars, nameVars, scanVars, destroyVars>>

\* what the operations on one part leave alone
notDepVars == <<discVars, envVars, keyVars, outVars, mergeVars, deployVars, findVars, nameVars, scanVars, destroyVars>>
notDiscVars == <<depVars, envVars, keyVars, outVars, mergeVars, deployVars, findVars, nameVars, scanVars, destroyVars>>
notEnvVars == <<depVars, discVars, keyVars, outVars, mergeVars, deployVars, findVars, nameVars, scanVars, destroyVars>>
notKeyVars == <<depVars, discVars, envVars, outVars, mergeVars, deployVars, findVars, nameVars, scanVars, destroyVars>>
notOutVars == <<depVars, discVars, envVars, keyVars, mergeVars, deployVars, findVars, nameVars, scanVars, destroyVars>>
notMergeVars == <<depVars, discVars, envVars, keyVars, outVars, deployVars, findVars, nameVars, scanVars, destroyVars>>
notDeployVars == <<depVars, discVars, envVars, keyVars, outVars, mergeVars, findVars, nameVars, scanVars, destroyVars>>
notFindVars == <<depVars, discVars, envVars, keyVars, outVars, mergeVars, deployVars, nameVars, scanVars, destroyVars>>
notNameVars == <<depVars, discVars, envVars, keyVars, outVars, mergeVars, deployVars, findVars, scanVars, destroyVars>>
notScanVars == <<depVars, discVars, envVars, keyVars, outVars, mergeVars, deployVars, findVars, nameVars, destroyVars>>
notDestroyVars == <<depVars, discVars, envVars, keyVars, outVars, mergeVars, deployVars, findVars, nameVars, scanVars>>

(***************************************************************************)
(* Bounds                                                                  *)
(***************************************************************************)
\* total number of dependency tokens declared over all service descriptors
MaxEdges == 4

\* number of dependency tokens one service descriptor declares
MaxDepends == 2

(***************************************************************************)
(* Dependency tokens and paths                                             *)
(***************************************************************************)
ServiceNames == {"a", "b", "c", "d"}

\* the dependency tokens a descriptor's `depends:` list may hold: relative
\* paths, a bare name and a "service/module" pair; "x" names no registered
\* service, and no token names service a
DepTokens == {"../b", "c", "../d", "../x", "d/m"}

\* the service_name arguments tried
Targets == ServiceNames \cup {"x"}

\* the "/"-separated components of a token
Comps(tok) ==
    CASE tok = "c"    -> <<"c">>
      [] tok = "../b" -> <<"..", "b">>
      [] tok = "../d" -> <<"..", "d">>
      [] tok = "../x" -> <<"..", "x">>
      [] tok = "d/m"  -> <<"d", "m">>
      [] tok = "../../b" -> <<"..", "..", "b">>
      [] tok = "../../x" -> <<"..", "..", "x">>
      [] tok = "../d/c"  -> <<"..", "d", "c">>
      [] tok = "../b/.." -> <<"..", "b", "..">>

\* the directory a service named n is discovered in; a service may also sit in
\* the root directory, which has no parent
ServiceDir(n) == <<"services", n>>
RootDir == << >>

NoError == [kind |-> "none", about |-> "none"]
Err(k, a) == [kind |-> k, about |-> a]

\* Path::parent(): None for a path without a final component
HasParent(path) == Len(path) > 0

\* the component before the last one taken for the file name
FileNameOfParent(comps) == comps[Len(comps) - 1]

\* Path::file_name() of parent.join(dep_path): the last component, None when
\* the path ends in ".."
FileName(comps) ==
    IF comps[Len(comps)] = ".." THEN "" ELSE comps[Len(comps)]
HasFileName(comps) == comps[Len(comps)] # ".."

\* str::starts_with("../") on a token
StartsWithParentDir(tok) == Len(Comps(tok)) > 1 /\ Comps(tok)[1] = ".."

\* ServiceRegistry::resolve_dependency_name: [err, name]
resolve_dependency_name(dep_path, current_path) ==
    IF StartsWithParentDir(dep_path)
    THEN IF ~HasParent(current_path)
         THEN [err |-> Err("ValidationError", dep_path), name |-> ""]
         ELSE LET resolved_path == SubSeq(current_path, 1, Len(current_path) - 1)
                                       \o Comps(dep_path)
              IN IF ~HasFileName(resolved_path)
                 THEN [err |-> Err("ValidationError", dep_path), name |-> ""]
                 ELSE IF FileName(resolved_path) \in DOMAIN services
                      THEN [err |-> NoError, name |-> FileName(resolved_path)]
                      ELSE [err |-> Err("ValidationError", dep_path), name |-> ""]
    ELSE \* "service/module" and bare names are returned as given
         [err |-> NoError, name |-> dep_path]

(***************************************************************************)
(* resolve_dependencies: depth-first traversal                             *)
(***************************************************************************)
\* the traversal state threaded through the recursion
StartState == [visited |-> {}, recursion_stack |-> {}, deployment_order |-> << >>,
               completed |-> << >>, err |-> NoError]

\* the cycle check left out
InProgressNever(name, st) == FALSE

\* line 201: the service is on the recursion stack
InProgress(name, st) == name \in st.recursion_stack

\* the visited check left out
AlreadyVisitedNever(name, st) == FALSE

\* line 208: the service was visited before
AlreadyVisited(name, st) == name \in st.visited

\* lines 213-214: mark as visited and push on the recursion stack
Enter(name, st) ==
    [st EXCEPT !.visited = @ \cup {name}, !.recursion_stack = @ \cup {name}]

\* line 230: the traversal of the service completes; `completed` lists the
\* services in the order in which their traversals completed
Complete(name, st) ==
    [st EXCEPT !.recursion_stack = @ \ {name}, !.completed = Append(@, name)]

\* the completed service put in front of the list
PushFront(name, st) == [st EXCEPT !.deployment_order = <<name>> \o @]

\* line 231: deployment_order.push
Push(name, st) == [st EXCEPT !.deployment_order = Append(@, name)]

\* the completed service left out of the list
LeaveUnlisted(name, st) == Complete(name, st)

\* lines 230-231
Leave(name, st) == Push(name, Complete(name, st))

\* line 219: self.services.get(&dep_name)
IsRegistered(dep_name) == dep_name \in DOMAIN services

RECURSIVE resolve_service_dependencies_recursive(_, _)
RECURSIVE ResolveDepsFrom(_, _, _)

\* lines 217-227: the loop over service.config.depends, from index i on
ResolveDepsFrom(name, i, st) ==
    IF i > Len(services[name].depends) THEN st
    ELSE LET r == resolve_dependency_name(services[name].depends[i], services[name].path)
         IN IF r.err # NoError THEN [st EXCEPT !.err = r.err]
            ELSE IF IsRegistered(r.name)
                 THEN LET st2 == resolve_service_dependencies_recursive(r.name, st)
                      IN IF st2.err # NoError THEN st2
                         ELSE ResolveDepsFrom(name, i + 1, st2)
                 ELSE ResolveDepsFrom(name, i + 1, st)

resolve_service_dependencies_recursive(name, st) ==
    IF InProgress(name, st)
    THEN [st EXCEPT !.err = Err("DependencyError", name)]
    ELSE IF AlreadyVisited(name, st) THEN st
    ELSE LET st2 == ResolveDepsFrom(name, 1, Enter(name, st))
         IN IF st2.err # NoError THEN st2 ELSE Leave(name, st2)

\* ServiceRegistry::resolve_dependencies: [ok, order, err, visited, completed]
resolve_dependencies(service_name) ==
    IF service_name \in DOMAIN services
    THEN LET st == resolve_service_dependencies_recursive(service_name, StartState)
         IN IF st.err # NoError
            THEN [ok |-> FALSE, order |-> << >>, err |-> st.err, visited |-> st.visited,
                  completed |-> st.completed]
            ELSE [ok |-> TRUE, order |-> st.deployment_order, err |-> NoError,
                  visited |-> st.visited, completed |-> st.completed]
    ELSE [ok |-> FALSE, order |-> << >>, err |-> Err("ValidationError", service_name),
          visited |-> {}, completed |-> << >>]

(***************************************************************************)
(* The dependency resolver as a state machine                              *)
(***************************************************************************)
NoResult == [ok |-> FALSE, order |-> << >>, err |-> NoError, visited |-> {},
             completed |-> << >>]

RECURSIVE SumLen(_, _)
SumLen(f, S) ==
    IF S = {} THEN 0
    ELSE LET n == CHOOSE n \in S : TRUE
         IN Len(f[n].depends) + SumLen(f, S \ {n})

EdgeCount == SumLen(services, DOMAIN services)

DepInit ==
    /\ services = [n \in ServiceNames |-> [path |-> ServiceDir(n), depends |-> << >>]]
    /\ dphase = "registry"
    /\ target = ""
    /\ result = NoResult

\* a descriptor declares one more entry of its `depends:` list
DeclareDepends(n, tok) ==
    /\ dphase = "registry"
    /\ EdgeCount < MaxEdges
    /\ Len(services[n].depends) < MaxDepends
    /\ services' = [services EXCEPT ![n].depends = Append(@, tok)]
    /\ UNCHANGED <<dphase, target, result>>
    /\ UNCHANGED notDepVars

\* service d is found in the root directory instead
DiscoverAtRoot ==
    /\ dphase = "registry"
    /\ services["d"].path = ServiceDir("d")
    /\ services' = [services EXCEPT !["d"].path = RootDir]
    /\ UNCHANGED <<dphase, target, result>>
    /\ UNCHANGED notDepVars

ResolveDependencies(t) ==
    /\ dphase = "registry"
    /\ dphase' = "resolved"
    /\ target' = t
    /\ result' = resolve_dependencies(t)
    /\ UNCHANGED services
    /\ UNCHANGED notDepVars

DepNext ==
    \/ \E n \in ServiceNames, tok \in DepTokens : DeclareDepends(n, tok)
    \/ DiscoverAtRoot
    \/ \E t \in Targets : ResolveDependencies(t)

(***************************************************************************)
(* Service discovery                                                       *)
(***************************************************************************)
\* length of the manifest's `services:` list
MaxManifest == 2

\* number of modules one service descriptor declares
MaxModules == 2

\* the directories under the root that may hold a service descriptor
Dirs == {"p1", "p2"}

DescriptorNames == {"api", "db"}

\* a module declaration of a service descriptor: its name, its path ("" when
\* unspecified) and what the .envie file of the module's directory holds:
\* "absent", "malformed", or a module descriptor of that name
ModuleDecls ==
    { [name |-> "m1", path |-> "",    local |-> "absent"],
      [name |-> "m1", path |-> "",    local |-> "malformed"],
      [name |-> "m1", path |-> "lib", local |-> "m2"],
      [name |-> "m2", path |-> "",    local |-> "absent"],
      [name |-> "m2", path |-> "lib", local |-> "absent"] }

SeqsUpTo(S, n) == UNION {[1..k -> S] : k \in 0..n}

Missing == [state |-> "missing", name |-> "", modules |-> << >>]
Malformed == [state |-> "malformed", name |-> "", modules |-> << >>]
Descriptor(n, ms) == [state |-> "ok", name |-> n, modules |-> ms]

\* the manifest: absent, unparsable, or listing service paths
NoManifest == [state |-> "absent", services |-> << >>]
BadManifest == [state |-> "malformed", services |-> << >>]
Manifest(paths) == [state |-> "ok", services |-> paths]

\* lines 113-117: the module's directory
ModulePath(service_path, decl) ==
    IF decl.path = "" THEN <<service_path, "modules", decl.name>>
    ELSE <<service_path, decl.path>>

RECURSIVE DiscoverModules(_, _, _)
\* lines 112-131: the loop over config.modules, from index i on: [ok, modules]
DiscoverModules(service_path, decls, i) ==
    IF i > Len(decls) THEN [ok |-> TRUE, modules |-> << >>]
    ELSE IF decls[i].local = "malformed"
         THEN [ok |-> FALSE, modules |-> << >>]
         ELSE LET rest == DiscoverModules(service_path, decls, i + 1)
                  module == [path |-> ModulePath(service_path, decls[i]),
                             name |-> IF decls[i].local = "absent"
                                      THEN decls[i].name ELSE decls[i].local]
              IN IF rest.ok
                 THEN [ok |-> TRUE, modules |-> <<module>> \o rest.modules]
                 ELSE rest

\* ServiceRegistry::discover_service: [ok, err, service]
discover_service(service_path) ==
    LET noService == [path |-> service_path, name |-> "", modules |-> << >>]
    IN IF descriptors[service_path].state = "missing"
       THEN [ok |-> FALSE, err |-> Err("ConfigError", service_path), service |-> noService]
       ELSE IF descriptors[service_path].state = "malformed"
       THEN [ok |-> FALSE, err |-> Err("ConfigError", service_path), service |-> noService]
       ELSE LET ms == DiscoverModules(service_path, descriptors[service_path].modules, 1)
            IN IF ~ms.ok
               THEN [ok |-> FALSE, err |-> Err("ConfigError", service_path),
                     service |-> noService]
               ELSE [ok |-> TRUE, err |-> NoError,
                     service |-> [path |-> service_path,
                                  name |-> descriptors[service_path].name,
                                  modules |-> ms.modules]]

\* HashMap::insert
Insert(map, key, value) ==
    [k \in DOMAIN map \cup {key} |-> IF k = key THEN value ELSE map[k]]

RECURSIVE RegisterModules(_, _, _, _)
\* lines 52-55: register the service's modules under "service/module"
RegisterModules(modules, service_name, ms, i) ==
    IF i > Len(ms) THEN modules
    ELSE RegisterModules(Insert(modules, <<service_name, ms[i].name>>, ms[i]),
                         service_name, ms, i + 1)

\* line 47: a service path whose descriptor does not load is passed over
LoadFailureIsSkipped(d) == ~d.ok

RECURSIVE DiscoverPaths(_, _, _)
\* lines 46-57: the loop over service_paths, from index i on
DiscoverPaths(service_paths, i, reg) ==
    IF i > Len(service_paths) THEN reg
    ELSE LET d == discover_service(service_paths[i])
         IN IF LoadFailureIsSkipped(d)
            THEN DiscoverPaths(service_paths, i + 1, reg)
            ELSE DiscoverPaths(service_paths, i + 1,
                   [reg EXCEPT
                      !.services = Insert(@, d.service.name, d.service),
                      !.modules = RegisterModules(@, d.service.name,
                                                  d.service.modules, 1)])

EmptyRegistry == [ok |-> TRUE, err |-> NoError, services |-> << >>, modules |-> << >>]

\* lines 80-96: the directories that hold a .envie file, in the order the
\* directory walk yields them
IsWalkOrder(paths) ==
    /\ \A i, j \in 1..Len(paths) : i # j => paths[i] # paths[j]
    /\ {paths[i] : i \in 1..Len(paths)} = {p \in Dirs : descriptors[p].state # "missing"}

\* ServiceRegistry::discover_from_path, the directory walk yielding `walk`
discover_from_path(walk) ==
    IF manifest.state = "malformed"
    THEN [ok |-> FALSE, err |-> Err("ConfigError", "workspace.envie"),
          services |-> << >>, modules |-> << >>]
    ELSE IF manifest.state = "ok"
         THEN DiscoverPaths(manifest.services, 1, EmptyRegistry)
         ELSE DiscoverPaths(walk, 1, EmptyRegistry)

DiscInit ==
    /\ descriptors = [p \in Dirs |-> Missing]
    /\ manifest = NoManifest
    /\ kphase = "files"
    /\ registry = EmptyRegistry

\* a service descriptor is written into a directory
WriteDescriptor(p, desc) ==
    /\ kphase = "files"
    /\ descriptors[p] = Missing
    /\ descriptors' = [descriptors EXCEPT ![p] = desc]
    /\ UNCHANGED <<manifest, kphase, registry>>
    /\ UNCHANGED notDiscVars

\* a workspace manifest is written at the root
WriteManifest(m) ==
    /\ kphase = "files"
    /\ manifest = NoManifest
    /\ manifest' = m
    /\ UNCHANGED <<descriptors, kphase, registry>>
    /\ UNCHANGED notDiscVars

DiscoverFromPath(walk) ==
    /\ kphase = "files"
    /\ IsWalkOrder(walk)
    /\ kphase' = "discovered"
    /\ registry' = discover_from_path(walk)
    /\ UNCHANGED <<descriptors, manifest>>
    /\ UNCHANGED notDiscVars

DiscNext ==
    \/ \E p \in Dirs :
         \E desc \in {Malformed} \cup
                     {Descriptor(n, ms) : n \in DescriptorNames,
                                          ms \in SeqsUpTo(ModuleDecls, MaxModules)} :
            WriteDescriptor(p, desc)
    \/ \E m \in {BadManifest} \cup {Manifest(ps) : ps \in SeqsUpTo(Dirs, MaxManifest)} :
         WriteManifest(m)
    \/ \E walk \in SeqsUpTo(Dirs, Cardinality(Dirs)) : DiscoverFromPath(walk)

(***************************************************************************)
(* Environment resolution                                                  *)
(***************************************************************************)
\* length of an environment token, in atoms
MaxTokenLen == 3

\* length of the known-workspaces list
MaxWorkspaces == 2

\* the atoms strings are made of; no atom is a prefix of another
Atoms == {"stable", "ephemeral", ".", "-", "app", "sandbox", "1"}

EnvTokens == SeqsUpTo(Atoms, MaxTokenLen)

ProjectNames == {<<"app">>, <<"sandbox">>}

Workspaces == {<<"app", "-", "1">>, <<"sandbox", "-", "1">>}

\* the names the stable-environment table may have as keys
StableNames == {<<"sandbox">>, <<"app", "-", "1">>}

\* EphemeralConfig.backend
EphemeralBackend ==
    [backend_type |-> "s3", config |-> [bucket |-> "terraform-state-ephemeral"]]

\* the StableEnvironmentConfig configured under a name
StableEntry(name) ==
    IF name = <<"sandbox">>
    THEN [workspace |-> <<"sandbox", "-", "1">>,
          backend |-> [backend_type |-> "s3",
                       config |-> [bucket |-> "terraform-state-stable"]]]
    ELSE [workspace |-> name,
          backend |-> [backend_type |-> "gcs",
                       config |-> [bucket |-> "terraform-state-shared"]]]

\* str::starts_with and str::strip_prefix
StartsWith(str, prefix) ==
    Len(str) >= Len(prefix) /\ SubSeq(str, 1, Len(prefix)) = prefix
StripPrefix(str, prefix) == SubSeq(str, Len(prefix) + 1, Len(str))

Ephemeral == [kind |-> "Ephemeral", name |-> << >>]
Stable(name) == [kind |-> "Stable", name |-> name]

EnvOk(workspace, environment_type, backend) ==
    [ok |-> TRUE, kind |-> "none", about |-> << >>, available |-> {},
     workspace |-> workspace, environment_type |-> environment_type,
     backend |-> backend]

\* Err(EnvieError::ValidationError(..)): the name the message is about and the
\* names it lists as available
EnvValidationError(about, available) ==
    [ok |-> FALSE, kind |-> "ValidationError", about |-> about,
     available |-> available,
     workspace |-> << >>, environment_type |-> Ephemeral,
     backend |-> [backend_type |-> "", config |-> [bucket |-> ""]]]

Elems(seq) == {seq[i] : i \in 1..Len(seq)}

\* a stable lookup that never fails: a miss is answered like a literal name
resolve_stable_environment_lenient(env_name) ==
    IF env_name \in DOMAIN resolver.environment_config.stable
    THEN EnvOk(resolver.environment_config.stable[env_name].workspace,
               Stable(env_name),
               resolver.environment_config.stable[env_name].backend)
    ELSE EnvOk(env_name, Stable(env_name),
               resolver.environment_config.ephemeral.backend)

\* EnvironmentResolver::resolve_stable_environment
resolve_stable_environment(env_name) ==
    IF env_name \in DOMAIN resolver.environment_config.stable
    THEN EnvOk(resolver.environment_config.stable[env_name].workspace,
               Stable(env_name),
               resolver.environment_config.stable[env_name].backend)
    ELSE EnvValidationError(env_name, DOMAIN resolver.environment_config.stable)

\* the current workspace taken from the known-workspaces list
resolve_current_ephemeral_first_known ==
    EnvOk(IF Len(resolver.available_workspaces) > 0
          THEN resolver.available_workspaces[1]
          ELSE resolver.current_workspace,
          Ephemeral, resolver.environment_config.ephemeral.backend)

\* EnvironmentResolver::resolve_current_ephemeral
resolve_current_ephemeral ==
    EnvOk(resolver.current_workspace, Ephemeral,
          resolver.environment_config.ephemeral.backend)

\* the existence check left out
resolve_specific_ephemeral_unchecked(id) ==
    EnvOk(resolver.project_name \o <<"-">> \o id, Ephemeral,
          resolver.environment_config.ephemeral.backend)

\* EnvironmentResolver::resolve_specific_ephemeral
resolve_specific_ephemeral(id) ==
    LET workspace == resolver.project_name \o <<"-">> \o id
    IN IF workspace \notin Elems(resolver.available_workspaces)
       THEN EnvValidationError(workspace, Elems(resolver.available_workspaces))
       ELSE EnvOk(workspace, Ephemeral,
                  resolver.environment_config.ephemeral.backend)

\* every literal name taken for a stable one
resolve_direct_workspace_stable_only(workspace) ==
    EnvOk(workspace, Stable(workspace),
          IF workspace \in DOMAIN resolver.environment_config.stable
          THEN resolver.environment_config.stable[workspace].backend
          ELSE resolver.environment_config.ephemeral.backend)

\* a literal name refused unless it is a known workspace
resolve_direct_workspace_checked(workspace) ==
    IF workspace \notin Elems(resolver.available_workspaces)
    THEN EnvValidationError(workspace, Elems(resolver.available_workspaces))
    ELSE EnvOk(workspace, Ephemeral,
               resolver.environment_config.ephemeral.backend)

\* EnvironmentResolver::resolve_direct_workspace
resolve_direct_workspace(workspace) ==
    LET environment_type ==
            IF StartsWith(workspace, resolver.project_name \o <<"-">>)
            THEN Ephemeral
            ELSE Stable(workspace)
        backend ==
            IF environment_type = Ephemeral
            THEN resolver.environment_config.ephemeral.backend
            ELSE IF environment_type.name \in DOMAIN resolver.environment_config.stable
                 THEN resolver.environment_config.stable[environment_type.name].backend
                 ELSE resolver.environment_config.ephemeral.backend
    IN EnvOk(workspace, environment_type, backend)

\* lines 78-92: the branch of resolve_environment a token takes
SelectedRule(ref) ==
    IF StartsWith(ref, <<"stable", ".">>) THEN "stable"
    ELSE IF ref = <<"ephemeral">> THEN "ephemeral"
    ELSE IF StartsWith(ref, <<"ephemeral", ".">>) THEN "ephemeral_id"
    ELSE "literal"

\* a failure of the selected rule falls through to the literal rule
resolve_environment_falling_through(ref) ==
    LET first ==
            CASE SelectedRule(ref) = "stable" ->
                    resolve_stable_environment(StripPrefix(ref, <<"stable", ".">>))
              [] SelectedRule(ref) = "ephemeral" ->
                    resolve_current_ephemeral
              [] SelectedRule(ref) = "ephemeral_id" ->
                    resolve_specific_ephemeral(StripPrefix(ref, <<"ephemeral", ".">>))
              [] OTHER ->
                    resolve_direct_workspace(ref)
    IN IF first.ok THEN first ELSE resolve_direct_workspace(ref)

\* EnvironmentResolver::resolve_environment
resolve_environment(ref) ==
    CASE SelectedRule(ref) = "stable" ->
            resolve_stable_environment(StripPrefix(ref, <<"stable", ".">>))
      [] SelectedRule(ref) = "ephemeral" ->
            resolve_current_ephemeral
      [] SelectedRule(ref) = "ephemeral_id" ->
            resolve_specific_ephemeral(StripPrefix(ref, <<"ephemeral", ".">>))
      [] OTHER ->
            resolve_direct_workspace(ref)

NoResolver ==
    [current_workspace |-> << >>, project_name |-> << >>,
     available_workspaces |-> << >>,
     environment_config |-> [ephemeral |-> [backend |-> EphemeralBackend],
                             stable |-> << >>]]

NoEnvironment == [EnvValidationError(<< >>, {}) EXCEPT !.kind = "none"]

EnvInit ==
    /\ resolver = NoResolver
    /\ ephase = "none"
    /\ env_ref = << >>
    /\ rule = "none"
    /\ resolved = NoEnvironment

\* EnvironmentResolver::new
New(current_workspace, project_name, stable_names) ==
    /\ ephase = "none"
    /\ ephase' = "ready"
    /\ resolver' = [current_workspace |-> current_workspace,
                    project_name |-> project_name,
                    available_workspaces |-> << >>,
                    environment_config |->
                        [ephemeral |-> [backend |-> EphemeralBackend],
                         stable |-> [n \in stable_names |-> StableEntry(n)]]]
    /\ UNCHANGED <<env_ref, rule, resolved>>
    /\ UNCHANGED notEnvVars

\* EnvironmentResolver::with_available_workspaces
WithAvailableWorkspaces(workspaces) ==
    /\ ephase = "ready"
    /\ resolver.available_workspaces = << >>
    /\ workspaces # << >>
    /\ resolver' = [resolver EXCEPT !.available_workspaces = workspaces]
    /\ UNCHANGED <<ephase, env_ref, rule, resolved>>
    /\ UNCHANGED notEnvVars

\* EnvironmentResolver::resolve_environment called with some token
ResolveEnvironment ==
    /\ ephase = "ready"
    /\ \E ref \in EnvTokens :
          /\ env_ref' = ref
          /\ rule' = SelectedRule(ref)
          /\ resolved' = resolve_environment(ref)
    /\ ephase' = "resolved"
    /\ UNCHANGED resolver
    /\ UNCHANGED notEnvVars

EnvNext ==
    \/ \E cw \in Workspaces, pn \in ProjectNames, names \in SUBSET StableNames :
          New(cw, pn, names)
    \/ \E ws \in SeqsUpTo(Workspaces, MaxWorkspaces) : WithAvailableWorkspaces(ws)
    \/ ResolveEnvironment

(***************************************************************************)
(* State keys and backend configuration                                    *)
(***************************************************************************)
\* the resolvers generate_state_key is called on
KeyResolvers ==
    {[NoResolver EXCEPT !.current_workspace = w, !.project_name = <<"app">>] :
        w \in {<<"app", "-", "1">>, <<"app", "-", "2">>}}

KeyWorkspaces == {<<"app", "-", "1">>, <<"prod">>}

KeyEnvironmentTypes == {Ephemeral, Stable(<<"prod">>), Stable(<<"{service}">>)}

KeyServices == {<<"api">>, <<"{module}">>}

KeyModules == {<<"lambda">>}

\* BackendConfig values: config maps a key to its value; the first is the
\* ephemeral backend the deploy command builds
KeyBackends ==
    {[backend_type |-> "s3",
      config |-> [k \in {"bucket", "region"} |->
                     IF k = "bucket" THEN <<"terraform-state-ephemeral">>
                     ELSE <<"eu-west-1">>]],
     [backend_type |-> "s3",
      config |-> [k \in {"bucket", "key"} |->
                     IF k = "bucket" THEN <<"terraform-state">>
                     ELSE <<"static", "/", "terraform.tfstate">>]],
     [backend_type |-> "gcs",
      config |-> [k \in {"key", "key_pattern"} |->
                     IF k = "key" THEN <<"static", "/", "terraform.tfstate">>
                     ELSE <<"{service}", "/", "{environment}", "/", "{module}">>]]}

\* the ResolvedEnvironment values generate_state_key is called with: ephemeral
\* ones of either workspace, and stable ones whose workspace carries their name
KeyEnvironments ==
    {EnvOk(w, Ephemeral, b) : w \in KeyWorkspaces, b \in KeyBackends}
    \cup {EnvOk(t.name, t, b) : t \in KeyEnvironmentTypes \ {Ephemeral}, b \in KeyBackends}

RECURSIVE Replace(_, _, _)
\* str::replace: every occurrence of the placeholder `from` gives way to `to`
Replace(str, from, to) ==
    IF str = << >> THEN << >>
    ELSE (IF Head(str) = from THEN to ELSE <<Head(str)>>)
         \o Replace(Tail(str), from, to)

\* line 171
default_pattern ==
    <<"stable", "/", "{environment}", "/", "{service}", "/", "{module}", "/",
      "terraform.tfstate">>

\* the configured template never consulted
key_pattern_default_only(resolved_env) == default_pattern

\* lines 172-173: the key_pattern entry of the backend, or the default
key_pattern(resolved_env) ==
    IF "key_pattern" \in DOMAIN resolved_env.backend.config
    THEN resolved_env.backend.config["key_pattern"]
    ELSE default_pattern

\* the workspace taken from the resolver instead of the resolved environment
EphemeralWorkspaceOfResolver(self, resolved_env) == self.current_workspace

\* line 167: the workspace an ephemeral key is made of
EphemeralWorkspace(self, resolved_env) == resolved_env.workspace

\* EnvironmentResolver::generate_state_key
generate_state_key(self, resolved_env, service, module) ==
    IF resolved_env.environment_type.kind = "Ephemeral"
    THEN <<"ephemeral", "/">> \o EphemeralWorkspace(self, resolved_env) \o <<"/">>
         \o service \o <<"/">> \o module \o <<"/", "terraform.tfstate">>
    ELSE Replace(Replace(Replace(key_pattern(resolved_env),
                                 "{environment}", resolved_env.environment_type.name),
                         "{service}", service),
                 "{module}", module)

\* the sequences that list every element of S exactly once
Orderings(S) ==
    {o \in [1..Cardinality(S) -> S] : \A i, j \in 1..Cardinality(S) : o[i] = o[j] => i = j}

\* the configured value of `key` passed through
ConfigItemStatic(key, value, state_key) == [key |-> key, value |-> value]

\* lines 188-192: one line of the rendering
ConfigItem(key, value, state_key) ==
    IF key = "key"
    THEN [key |-> key, value |-> state_key]
    ELSE [key |-> key, value |-> value]

\* a key entry rendered whether or not one is configured
generate_backend_config_keyed(self, resolved_env, service, module, order) ==
    LET state_key == generate_state_key(self, resolved_env, service, module)
        others == SelectSeq(order, LAMBDA k : k # "key")
    IN [made |-> TRUE,
        backend_type |-> resolved_env.backend.backend_type,
        config_items |->
            [i \in 1..Len(others) |->
                [key |-> others[i], value |-> resolved_env.backend.config[others[i]]]]
            \o <<[key |-> "key", value |-> state_key]>>]

\* EnvironmentResolver::generate_backend_config; `order` is the order in which
\* the HashMap hands out the configured entries
generate_backend_config(self, resolved_env, service, module, order) ==
    LET state_key == generate_state_key(self, resolved_env, service, module)
    IN [made |-> TRUE,
        backend_type |-> resolved_env.backend.backend_type,
        config_items |->
            [i \in 1..Len(order) |->
                ConfigItem(order[i], resolved_env.backend.config[order[i]], state_key)]]

NoCall ==
    [made |-> FALSE, self |-> NoResolver, resolved_env |-> NoEnvironment,
     service |-> << >>, module |-> << >>, key |-> << >>]

Call(self, resolved_env, service, module) ==
    [made |-> TRUE, self |-> self, resolved_env |-> resolved_env,
     service |-> service, module |-> module,
     key |-> generate_state_key(self, resolved_env, service, module)]

NoRendering == [made |-> FALSE, backend_type |-> "", config_items |-> << >>]

KeyInit ==
    /\ key_call = NoCall
    /\ prev_call = NoCall
    /\ rendered = NoRendering

\* a caller asks for a state key
GenerateStateKey ==
    /\ \E self \in KeyResolvers, resolved_env \in KeyEnvironments,
          service \in KeyServices, module \in KeyModules :
          key_call' = Call(self, resolved_env, service, module)
    /\ prev_call' = key_call
    /\ rendered' = NoRendering
    /\ UNCHANGED notKeyVars

\* a caller asks for a backend configuration, which computes the state key
GenerateBackendConfig ==
    /\ \E self \in KeyResolvers, resolved_env \in KeyEnvironments,
          service \in KeyServices, module \in KeyModules :
          /\ key_call' = Call(self, resolved_env, service, module)
          /\ \E order \in Orderings(DOMAIN resolved_env.backend.config) :
                rendered' = generate_backend_config(self, resolved_env, service,
                                                    module, order)
    /\ prev_call' = key_call
    /\ UNCHANGED notKeyVars

KeyNext ==
    \/ GenerateStateKey
    \/ GenerateBackendConfig

(***************************************************************************)
(* Output command: merge_outputs                                           *)
(***************************************************************************)
OutputKeys == {"x", "y"}

OutputValues == {"1", "2", "3"}

\* serde_json::Value: an object with its entries, or another value
JsonObject(entries) == [kind |-> "object", entries |-> entries]

JsonNull == [kind |-> "null", entries |-> << >>]

\* the JSON values handed to merge_outputs
OutputMaps ==
    {JsonObject(m) : m \in UNION {[ks -> OutputValues] : ks \in SUBSET OutputKeys}}
    \cup {JsonNull}

\* serde_json::Map::new()
EmptyMap == << >>

\* a merge in which the value first written stays
merge_outputs_first_wins(map, new) ==
    IF new.kind = "object"
    THEN [k \in DOMAIN map \cup DOMAIN new.entries |->
             IF k \in DOMAIN map THEN map[k] ELSE new.entries[k]]
    ELSE map

\* OutputCommand::merge_outputs: every entry of an object is inserted,
\* replacing the value of a key already present
merge_outputs(map, new) ==
    IF new.kind = "object"
    THEN [k \in DOMAIN map \cup DOMAIN new.entries |->
             IF k \in DOMAIN new.entries THEN new.entries[k] ELSE map[k]]
    ELSE map

MergeInit ==
    /\ combined = EmptyMap
    /\ merge_before = EmptyMap
    /\ merge_new = JsonNull

\* OutputCommand::merge_outputs called on the running map
MergeOutputs(new) ==
    /\ merge_before' = combined
    /\ merge_new' = new
    /\ combined' = merge_outputs(combined, new)
    /\ UNCHANGED notMergeVars

MergeNext == \E new \in OutputMaps : MergeOutputs(new)

(***************************************************************************)
(* Output command: get_combined_output                                     *)
(***************************************************************************)
\* length of the dependencies list
MaxOutTokens == 3

\* the "component:environment" tokens, as sequences of atoms
Dependencies ==
    {<<"api", ":", "prod">>,
     <<"api", "/", "lambda", ":", "prod">>,
     <<"db", ":", "prod">>,
     <<"api", ":", "staging">>,
     <<"api", ":", "dev">>,
     <<"api">>}

RECURSIVE Split(_, _)
\* str::split: the pieces between the separators
Split(str, sep) ==
    IF \A i \in 1..Len(str) : str[i] # sep
    THEN <<str>>
    ELSE LET i == CHOOSE j \in 1..Len(str) :
                     str[j] = sep /\ \A k \in 1..(j - 1) : str[k] # sep
         IN <<SubSeq(str, 1, i - 1)>> \o Split(SubSeq(str, i + 1, Len(str)), sep)

\* line 67: dep.ends_with(":dev")
EndsWithDev(dep) ==
    Len(dep) >= 2 /\ dep[Len(dep) - 1] = ":" /\ dep[Len(dep)] = "dev"

IsDev(dep) == EndsWithDev(dep)

IsNonDev(dep) == ~EndsWithDev(dep)

\* lines 83 and 96: the directories queried
StableDeployments(service) == <<"services">> \o service \o <<"stable_deployments">>

TempDeployments(comp_name) == <<"services">> \o comp_name \o <<"temp_deployments">>

\* the deployment directories that may exist
OutDirs ==
    {StableDeployments(<<"api">>), StableDeployments(<<"db">>),
     TempDeployments(<<"api">>)}

\* Path::exists; a directory is "absent", "uninitialized" (no .terraform),
\* "ready", or "failing" (terraform output fails)
Exists(dir) == dir \in OutDirs /\ out_fs[dir] # "absent"

\* the outputs terraform reports in a directory
OutputsAt(dir) ==
    IF dir = StableDeployments(<<"api">>) THEN [k \in {"x"} |-> "1"]
    ELSE IF dir = StableDeployments(<<"db">>)
         THEN [k \in {"x", "y"} |-> IF k = "x" THEN "2" ELSE "3"]
         ELSE [k \in {"y", "z"} |-> IF k = "y" THEN "4" ELSE "5"]

\* a set element that also carries the component it came from
PairOfKeepingComponent(comp) ==
    <<Split(Split(comp, ":")[1], "/")[1], Split(comp, ":")[2], comp>>

\* lines 74-77: the element inserted for a component of two parts
PairOf(comp) ==
    <<Split(Split(comp, ":")[1], "/")[1], Split(comp, ":")[2]>>

\* lines 70-79: the HashSet of the non-dev components
unique_service_envs(non_dev_components) ==
    {PairOf(non_dev_components[i]) :
        i \in {j \in 1..Len(non_dev_components) :
                  Len(Split(non_dev_components[j], ":")) = 2}}

\* lines 91-96: the dev components that split into two parts, in input order
DevQueries(dev_components) ==
    LET wellFormed == SelectSeq(dev_components,
                                LAMBDA c : Len(Split(c, ":")) = 2)
    IN [i \in 1..Len(wellFormed) |->
           [dir |-> TempDeployments(Split(wellFormed[i], ":")[1]),
            env |-> Split(wellFormed[i], ":")[2]]]

\* lines 82-83: the stable directories in the order the HashSet hands out
\* its pairs
StableQueries(order) ==
    [i \in 1..Len(order) |->
        [dir |-> StableDeployments(order[i][1]), env |-> order[i][2]]]

OutStart == [ok |-> TRUE, err |-> NoError, combined |-> EmptyMap, queries |-> << >>]

\* OutputCommand::get_terraform_output followed by merge_outputs
QueryAndMerge(st, q) ==
    IF out_fs[q.dir] = "uninitialized"
    THEN [st EXCEPT !.ok = FALSE, !.err = Err("TerraformError", "not initialized")]
    ELSE IF out_fs[q.dir] = "failing"
         THEN [st EXCEPT !.ok = FALSE, !.err = Err("TerraformError", "output"),
                         !.queries = Append(@, q)]
         ELSE [st EXCEPT !.queries = Append(@, q),
                         !.combined = merge_outputs(@, JsonObject(OutputsAt(q.dir)))]

RECURSIVE QueryAll(_, _, _)
\* lines 82-88 and 91-102: the loops; a failed query ends the call
QueryAll(qs, i, st) ==
    IF i > Len(qs) \/ ~st.ok THEN st
    ELSE QueryAll(qs, i + 1, IF Exists(qs[i].dir) THEN QueryAndMerge(st, qs[i]) ELSE st)

\* OutputCommand::get_combined_output; `order` is the order in which the
\* HashSet of pairs is iterated
get_combined_output(dependencies, order) ==
    QueryAll(StableQueries(order) \o DevQueries(SelectSeq(dependencies, IsDev)),
             1, OutStart)

OutInit ==
    /\ out_fs = [d \in OutDirs |-> "absent"]
    /\ ophase = "setup"
    /\ out_tokens = << >>
    /\ out_result = OutStart

\* a deployment directory is created
CreateDeployment(dir) ==
    /\ ophase = "setup"
    /\ out_fs[dir] = "absent"
    /\ out_fs' = [out_fs EXCEPT ![dir] = "uninitialized"]
    /\ UNCHANGED <<ophase, out_tokens, out_result>>
    /\ UNCHANGED notOutVars

\* terraform init creates .terraform in it
TerraformInit(dir) ==
    /\ ophase = "setup"
    /\ out_fs[dir] = "uninitialized"
    /\ out_fs' = [out_fs EXCEPT ![dir] = "ready"]
    /\ UNCHANGED <<ophase, out_tokens, out_result>>
    /\ UNCHANGED notOutVars

\* terraform output stops working in it
TerraformBreaks(dir) ==
    /\ ophase = "setup"
    /\ out_fs[dir] = "ready"
    /\ out_fs' = [out_fs EXCEPT ![dir] = "failing"]
    /\ UNCHANGED <<ophase, out_tokens, out_result>>
    /\ UNCHANGED notOutVars

\* OutputCommand::get_combined_output called with some dependencies
GetCombinedOutput ==
    /\ ophase = "setup"
    /\ \E dependencies \in SeqsUpTo(Dependencies, MaxOutTokens) :
          /\ out_tokens' = dependencies
          /\ \E order \in Orderings(unique_service_envs(
                                        SelectSeq(dependencies, IsNonDev))) :
                out_result' = get_combined_output(dependencies, order)
    /\ ophase' = "combined"
    /\ UNCHANGED out_fs
    /\ UNCHANGED notOutVars

OutNext ==
    \/ \E dir \in OutDirs : CreateDeployment(dir)
    \/ \E dir \in OutDirs : TerraformInit(dir)
    \/ \E dir \in OutDirs : TerraformBreaks(dir)
    \/ GetCombinedOutput

(***************************************************************************)
(* Deploy command                                                          *)
(***************************************************************************)
\* number of modules of the deployed service
MaxDeployModules == 3

ModuleNames == {"m1", "m2", "m3"}

\* DiscoveredModule: its name and the modules of the service that its
\* dependency references point at
Module(name, depends) == [name |-> name, depends |-> depends]

DeclaredNames == {dmodules[i].name : i \in 1..Len(dmodules)}

NoDeployResult == [returned |-> FALSE, ok |-> FALSE, module |-> "", op |-> ""]

DeployOk == [returned |-> TRUE, ok |-> TRUE, module |-> "", op |-> ""]

\* the Err of the operation `op` run for `module`, handed up by `?`
DeployErr(module, op) == [returned |-> TRUE, ok |-> FALSE, module |-> module, op |-> op]

\* a failure that is logged and passed over
AfterFailureContinue(i) ==
    IF i < Len(dmodules)
    THEN [pc |-> "generate", mod |-> i + 1]
    ELSE [pc |-> "done", mod |-> i]

\* the `?` after every operation: the call returns at once
AfterFailure(i) == [pc |-> "failed", mod |-> i]

\* lines 104-106: the next iteration of the loop over service.modules
AfterModule(i) ==
    IF i < Len(dmodules)
    THEN [pc |-> "generate", mod |-> i + 1]
    ELSE [pc |-> "done", mod |-> i]

\* the run of the command: its dry_run option, whether everything before
\* resolve_dependencies succeeded, and whether resolve_dependencies did
NotRun == [executed |-> FALSE, dry_run |-> FALSE, prepared |-> FALSE, planned |-> FALSE]

Run(prepared, planned, dry_run) ==
    [executed |-> TRUE, dry_run |-> dry_run, prepared |-> prepared,
     planned |-> prepared /\ planned]

\* the dry-run return left out
AfterResolutionAlwaysDeploys(planned, dry_run) ==
    IF ~planned THEN "failed" ELSE "deploy"

\* lines 96-101: `?` on resolve_dependencies, then the dry-run return
AfterResolution(planned, dry_run) ==
    IF ~planned THEN "failed"
    ELSE IF dry_run THEN "done" ELSE "deploy"

DeployInit ==
    /\ dmodules = << >>
    /\ deploy_pc = "config"
    /\ dmod = 0
    /\ ops = << >>
    /\ applying = {}
    /\ applied = {}
    /\ deploy_result = NoDeployResult
    /\ deploy_run = NotRun

\* the service descriptor declares one more module
DeclareModule(name, depends) ==
    /\ deploy_pc = "config"
    /\ Len(dmodules) < MaxDeployModules
    /\ name \notin DeclaredNames
    /\ name \notin depends
    /\ dmodules' = Append(dmodules, Module(name, depends))
    /\ UNCHANGED <<deploy_pc, dmod, ops, applying, applied, deploy_result, deploy_run>>
    /\ UNCHANGED notDeployVars

\* DeployV2Command::execute up to the loop of deploy_service: discovery, the
\* choice of the service and the resolver succeed or fail (`prepared`), then
\* resolve_dependencies succeeds or fails (`planned`); a dry run prints the
\* plan and returns
Execute(prepared, planned, dry_run) ==
    /\ deploy_pc = "config"
    /\ deploy_run' = Run(prepared, planned, dry_run)
    /\ IF ~prepared
       THEN /\ deploy_pc' = "failed"
            /\ deploy_result' = DeployErr("", "prepare")
            /\ dmod' = dmod
       ELSE IF AfterResolution(planned, dry_run) = "failed"
            THEN /\ deploy_pc' = "failed"
                 /\ deploy_result' = DeployErr("", "resolve_dependencies")
                 /\ dmod' = dmod
            ELSE IF AfterResolution(planned, dry_run) = "done" \/ dmodules = << >>
                 THEN /\ deploy_pc' = "done"
                      /\ deploy_result' = DeployOk
                      /\ dmod' = dmod
                 ELSE /\ deploy_pc' = "generate"
                      /\ deploy_result' = deploy_result
                      /\ dmod' = 1
    /\ UNCHANGED <<dmodules, ops, applying, applied>>
    /\ UNCHANGED notDeployVars

\* an operation run for a module, its outcome and, for workspace_list, whether
\* the list returned holds the workspace
Ran(module, op, ok, listed) ==
    [module |-> module, op |-> op, ok |-> ok, listed |-> ok /\ listed]

\* a workspace created whatever the list holds
AfterListAlwaysNew(listed) == "workspace_new"

\* lines 138-142: .iter().any(|w| w == workspace), then select or new
AfterList(listed) == IF listed THEN "workspace_select" ELSE "workspace_new"

\* one operation of deploy_module run for the current module, followed by `?`
Operation(op, ok, listed, next) ==
    /\ ops' = Append(ops, Ran(dmodules[dmod].name, op, ok, listed))
    /\ IF ok
       THEN /\ deploy_pc' = next
            /\ dmod' = dmod
            /\ deploy_result' = deploy_result
       ELSE /\ deploy_pc' = AfterFailure(dmod).pc
            /\ dmod' = AfterFailure(dmod).mod
            /\ deploy_result' = DeployErr(dmodules[dmod].name, op)
    /\ UNCHANGED <<dmodules, deploy_run>>
    /\ UNCHANGED notDeployVars

\* lines 122-131: generator.write_generated_files(..)?
WriteGeneratedFiles(ok) ==
    /\ deploy_pc = "generate"
    /\ Operation("generate", ok, FALSE, "init")
    /\ UNCHANGED <<applying, applied>>

\* line 135: terraform_manager.init()?
TerraformInitModule(ok) ==
    /\ deploy_pc = "init"
    /\ Operation("init", ok, FALSE, "workspace_list")
    /\ UNCHANGED <<applying, applied>>

\* line 138: terraform_manager.workspace_list()? and the test on its result
WorkspaceList(ok, listed) ==
    /\ deploy_pc = "workspace_list"
    /\ Operation("workspace_list", ok, listed, AfterList(listed))
    /\ UNCHANGED <<applying, applied>>

\* line 139: terraform_manager.workspace_select(workspace)?
WorkspaceSelect(ok) ==
    /\ deploy_pc = "workspace_select"
    /\ Operation("workspace_select", ok, FALSE, "apply")
    /\ UNCHANGED <<applying, applied>>

\* line 141: terraform_manager.workspace_new(workspace)?
WorkspaceNew(ok) ==
    /\ deploy_pc = "workspace_new"
    /\ Operation("workspace_new", ok, FALSE, "apply")
    /\ UNCHANGED <<applying, applied>>

\* line 145: terraform apply is started and the caller waits for it
ApplyStarts ==
    /\ deploy_pc = "apply"
    /\ deploy_pc' = "applying"
    /\ applying' = applying \cup {dmodules[dmod].name}
    /\ UNCHANGED <<dmodules, dmod, ops, applied, deploy_result, deploy_run>>
    /\ UNCHANGED notDeployVars

\* line 145: terraform apply exits; `?`; lines 147-149 and the next iteration
ApplyEnds(ok) ==
    /\ deploy_pc = "applying"
    /\ applying' = applying \ {dmodules[dmod].name}
    /\ ops' = Append(ops, Ran(dmodules[dmod].name, "apply", ok, FALSE))
    /\ IF ok
       THEN /\ applied' = applied \cup {dmodules[dmod].name}
            /\ deploy_pc' = AfterModule(dmod).pc
            /\ dmod' = AfterModule(dmod).mod
            /\ deploy_result' = IF AfterModule(dmod).pc = "done"
                                THEN DeployOk ELSE deploy_result
       ELSE /\ applied' = applied
            /\ deploy_pc' = AfterFailure(dmod).pc
            /\ dmod' = AfterFailure(dmod).mod
            /\ deploy_result' = DeployErr(dmodules[dmod].name, "apply")
    /\ UNCHANGED <<dmodules, deploy_run>>
    /\ UNCHANGED notDeployVars

DeployNext ==
    \/ \E name \in ModuleNames, depends \in SUBSET ModuleNames :
          DeclareModule(name, depends)
    \/ \E prepared, planned, dry_run \in BOOLEAN : Execute(prepared, planned, dry_run)
    \/ \E ok \in BOOLEAN : WriteGeneratedFiles(ok)
    \/ \E ok \in BOOLEAN : TerraformInitModule(ok)
    \/ \E ok, listed \in BOOLEAN : WorkspaceList(ok, listed)
    \/ \E ok \in BOOLEAN : WorkspaceSelect(ok)
    \/ \E ok \in BOOLEAN : WorkspaceNew(ok)
    \/ ApplyStarts
    \/ \E ok \in BOOLEAN : ApplyEnds(ok)

(***************************************************************************)
(* find_service_by_path                                                    *)
(***************************************************************************)
FindNames == {"api", "db", "web"}

\* the directories services are rooted at
FindRoots ==
    {<<"w">>, <<"w", "api">>, <<"w", "api", "modules">>, <<"w", "db">>}

\* the paths looked up
FindPaths == FindRoots \cup {<<"w", "api", "modules", "lambda">>, <<"z">>}

None == [some |-> FALSE, name |-> "", path |-> << >>]

Some(name) == [some |-> TRUE, name |-> name, path |-> roots[name]]

\* the first service handed out by self.services.values() that is among
\* `matching`
FirstIn(order, matching) ==
    IF \E i \in 1..Len(order) : order[i] \in matching
    THEN Some(order[CHOOSE i \in 1..Len(order) :
                       order[i] \in matching /\ \A j \in 1..(i - 1) : order[j] \notin matching])
    ELSE None

\* the exact pass left out
ExactMatchNever(path, order) == None

\* lines 144-148: the first service whose path equals `path`
ExactMatch(path, order) == FirstIn(order, {n \in DOMAIN roots : roots[n] = path})

\* lines 151-155: the first service whose path is a prefix of `path`
PrefixMatch(path, order) ==
    FirstIn(order, {n \in DOMAIN roots : StartsWith(path, roots[n])})

\* ServiceRegistry::find_service_by_path; `order` is the order in which the
\* HashMap hands out its values
find_service_by_path(path, order) ==
    IF ExactMatch(path, order).some
    THEN ExactMatch(path, order)
    ELSE PrefixMatch(path, order)

FindInit ==
    /\ roots = << >>
    /\ fphase = "registry"
    /\ query = << >>
    /\ found = None

\* discovery registers a service rooted at a directory
RegisterService(name, path) ==
    /\ fphase = "registry"
    /\ name \notin DOMAIN roots
    /\ \A n \in DOMAIN roots : roots[n] # path
    /\ roots' = [n \in DOMAIN roots \cup {name} |-> IF n = name THEN path ELSE roots[n]]
    /\ UNCHANGED <<fphase, query, found>>
    /\ UNCHANGED notFindVars

\* ServiceRegistry::find_service_by_path called with some path
FindServiceByPath ==
    /\ fphase = "registry"
    /\ \E path \in FindPaths :
          /\ query' = path
          /\ \E order \in Orderings(DOMAIN roots) :
                found' = find_service_by_path(path, order)
    /\ fphase' = "found"
    /\ UNCHANGED roots
    /\ UNCHANGED notFindVars

FindNext ==
    \/ \E name \in FindNames, path \in FindRoots : RegisterService(name, path)
    \/ FindServiceByPath

(***************************************************************************)
(* resolve_dependency_name, called on its own                              *)
(***************************************************************************)
\* number of components of the directory a declaring service is rooted at
MaxDepth == 3

\* the dependency tokens passed: those of the descriptors, tokens that climb
\* two levels, a token that descends two levels and a token that ends in ".."
NameTokens == DepTokens \cup {"../../b", "../../x", "../d/c", "../b/.."}

\* the directories of the declaring service (DiscoveredService.path)
NameDirs == UNION {[1..n -> {"w", "services", "a"}] : n \in 0..MaxDepth}

NoNameCall == [made |-> FALSE, dep_path |-> "", current_path |-> << >>,
               result |-> [err |-> NoError, name |-> ""]]

NameInit == name_call = NoNameCall

\* ServiceRegistry::resolve_dependency_name called with some token, for a
\* service rooted at some directory
ResolveDependencyName ==
    /\ \E dep_path \in NameTokens, current_path \in NameDirs :
          name_call' = [made |-> TRUE, dep_path |-> dep_path,
                        current_path |-> current_path,
                        result |-> resolve_dependency_name(dep_path, current_path)]
    /\ UNCHANGED notNameVars

NameNext == ResolveDependencyName

(***************************************************************************)
(* TerraformScanner::scan_content                                          *)
(***************************************************************************)
\* number of lines of the configuration text
MaxLines == 5

\* the kinds of (trimmed) line the scanner tells apart:
\*   data "terraform_remote_state" "<a>" {     backend = "<a>"
\*   config = {                                <a> = "<b>"
\*   }
DataLine(name) == [kind |-> "data", a |-> name, b |-> ""]
BackendLine(type) == [kind |-> "backend", a |-> type, b |-> ""]
ConfigLine == [kind |-> "config", a |-> "", b |-> ""]
KeyValueLine(key, value) == [kind |-> "kv", a |-> key, b |-> value]
CloseLine == [kind |-> "close", a |-> "", b |-> ""]

Lines ==
    {DataLine("vpc"), DataLine("db"), BackendLine("gcs"), ConfigLine,
     KeyValueLine("bucket", "b"), KeyValueLine("name", "foo"), CloseLine}

\* line 47: data_source_pattern.captures(line)
IsDataSourceStart(line) == line.kind = "data"

\* line 66: backend_pattern.captures(line)
IsBackend(line) == line.kind = "backend"

\* line 73: line.contains("config") && line.contains("{")
IsConfigOpen(line) == line.kind = "config"

\* line 79: line.contains("=")
ContainsEquals(line) == line.kind \in {"backend", "config", "kv"}

\* line 87: line == "}"
IsClose(line) == line.kind = "close"

\* parse_config_line: the key and the value around the single "="
parse_config_line(line) == <<line.a, line.b>>

\* HashMap::insert
ConfigInsert(config, pair) == {p \in config : p[1] # pair[1]} \cup {pair}

NoneStr == [some |-> FALSE, v |-> ""]
SomeStr(s) == [some |-> TRUE, v |-> s]

\* current_backend.unwrap_or_else(|| "s3")
TerraformDependency(st) ==
    [data_source_name |-> st.current_data_source.v,
     backend_type |-> IF st.current_backend.some THEN st.current_backend.v ELSE "s3",
     backend_config |-> st.current_config]

\* lines 36-41
ScanStart ==
    [dependencies |-> << >>, current_data_source |-> NoneStr,
     current_backend |-> NoneStr, current_config |-> {},
     in_data_source |-> FALSE, in_backend_config |-> FALSE]

\* if let Some(..) = current_data_source.take() { dependencies.push(..) }
TakeAndPush(st) ==
    IF st.current_data_source.some
    THEN [st EXCEPT !.dependencies = Append(@, TerraformDependency(st)),
                    !.current_data_source = NoneStr]
    ELSE st

\* lines 87-99: a "}" line while inside a data source
CloseBrace(st) ==
    IF ~st.in_backend_config
    THEN [TakeAndPush(st) EXCEPT !.in_data_source = FALSE,
                                 !.in_backend_config = FALSE,
                                 !.current_backend = NoneStr,
                                 !.current_config = {}]
    ELSE st

\* lines 43-100: the body of the loop, for one line
ScanLine(st, line) ==
    IF IsDataSourceStart(line)
    THEN [TakeAndPush(st) EXCEPT !.current_data_source = SomeStr(line.a),
                                 !.current_backend = NoneStr,
                                 !.current_config = {},
                                 !.in_data_source = TRUE,
                                 !.in_backend_config = FALSE]
    ELSE IF ~st.in_data_source THEN st
    ELSE IF IsBackend(line)
         THEN [st EXCEPT !.current_backend = SomeStr(line.a),
                         !.in_backend_config = TRUE]
    ELSE IF IsConfigOpen(line)
         THEN [st EXCEPT !.in_backend_config = TRUE]
    ELSE IF st.in_backend_config /\ ContainsEquals(line)
         THEN [st EXCEPT !.current_config = ConfigInsert(@, parse_config_line(line))]
    ELSE IF IsClose(line) THEN CloseBrace(st)
    ELSE st

RECURSIVE ScanFrom(_, _, _)
ScanFrom(text, i, st) ==
    IF i > Len(text) THEN st ELSE ScanFrom(text, i + 1, ScanLine(st, text[i]))

\* TerraformScanner::scan_content
scan_content(text) == TakeAndPush(ScanFrom(text, 1, ScanStart)).dependencies

ScanInit ==
    /\ content = << >>
    /\ sphase = "text"
    /\ scanned = << >>

\* the configuration text gets one more line
WriteLine(line) ==
    /\ sphase = "text"
    /\ Len(content) < MaxLines
    /\ content' = Append(content, line)
    /\ UNCHANGED <<sphase, scanned>>
    /\ UNCHANGED notScanVars

ScanContent ==
    /\ sphase = "text"
    /\ sphase' = "scanned"
    /\ scanned' = scan_content(content)
    /\ UNCHANGED content
    /\ UNCHANGED notScanVars

ScanNext ==
    \/ \E line \in Lines : WriteLine(line)
    \/ ScanContent

(***************************************************************************)
(* The destroy commands: DestroyCommand::execute and EnvCommand::destroy   *)
(***************************************************************************)
\* number of entries of the dependency list recorded in the state
MaxRecorded == 3

DefaultWorkspace == <<"default">>

\* the name of the current directory
RepoName == "app"

\* the merge request ids given on the command line
MergeRequests == {"1", "2", "x"}

\* Option<String>::None
NoMergeRequest == ""

\* format!("{}-{}", repo_name, merge_request)
format_workspace_name(merge_request_id) == <<RepoName, "-", merge_request_id>>

\* validate_merge_request_id: ^[0-9]+(-[0-9A-Za-z]+)?$
validate_merge_request_id(merge_request_id) == merge_request_id \in {"1", "2"}

\* the workspaces that may exist besides the default one
EphemeralWorkspaces == {format_workspace_name("1"), format_workspace_name("2")}

\* the "component:environment" entries the state may record
RecordedDependencies ==
    {<<"api", ":", "dev">>, <<"db", ":", "prod">>, <<"web", ":", "dev">>,
     <<"cache">>, <<"q", ":", "x", ":", "dev">>}

NoDestroyRun ==
    [command |-> "none", workspace |-> << >>, dry_run |-> FALSE, listed |-> {},
     dependencies |-> << >>, next |-> 0, printed |-> << >>]

NoDestroyResult == [returned |-> FALSE, ok |-> FALSE, kind |-> ""]
DestroyOk == [returned |-> TRUE, ok |-> TRUE, kind |-> ""]
DestroyErr(kind) == [returned |-> TRUE, ok |-> FALSE, kind |-> kind]

\* an operation invoked: on which workspace or component, for which entry of
\* the dependency list, and whether it succeeded
Invoked(op, arg, index, ok) == [op |-> op, arg |-> arg, index |-> index, ok |-> ok]

\* destroy.rs line 41, env.rs line 68: workspace == "default"
IsDefault(workspace) == workspace = DefaultWorkspace

\* the existence check left out
WorkspaceListedAlways(listed, workspace) == TRUE

\* destroy.rs line 47, env.rs line 75: the list holds the workspace
WorkspaceListed(listed, workspace) == workspace \in listed

\* every well-formed entry taken for a dev component
ShouldDestroyAny(parts) == Len(parts) = 2

\* destroy.rs lines 110-114: parts.len() == 2 and comp_env == "dev"
ShouldDestroy(parts) == Len(parts) = 2 /\ parts[2] = <<"dev">>

\* destroy.rs lines 108-121: the entry handled after entry i, in reverse
AfterComponent(i) ==
    IF i > 1 THEN [pc |-> "destroy_components", next |-> i - 1]
    ELSE [pc |-> "terraform_destroy", next |-> 0]

\* destroy.rs lines 85-103: the lines printed for a dry run
RECURSIVE print_destroy_order(_, _)
print_destroy_order(dependencies, i) ==
    IF i = 0 THEN << >>
    ELSE LET parts == Split(dependencies[i], ":")
         IN (IF Len(parts) = 2
             THEN <<[entry |-> i, comp_name |-> parts[1],
                     skipped |-> parts[2] # <<"dev">>]>>
             ELSE << >>)
            \o print_destroy_order(dependencies, i - 1)

DestroyInit ==
    /\ provisioner = [workspaces |-> {DefaultWorkspace}, current |-> DefaultWorkspace]
    /\ destroy_pc = "idle"
    /\ destroy_run = NoDestroyRun
    /\ destroy_log = << >>
    /\ destroy_result = NoDestroyResult

\* the command returns an error
DestroyFails(kind) ==
    /\ destroy_pc' = "failed"
    /\ destroy_result' = DestroyErr(kind)

\* the command returns Ok
DestroySucceeds ==
    /\ destroy_pc' = "done"
    /\ destroy_result' = DestroyOk

\* an earlier `env start` created a workspace, which selects it
CreateWorkspace(workspace) ==
    /\ destroy_pc = "idle"
    /\ workspace \notin provisioner.workspaces
    /\ provisioner' = [workspaces |-> provisioner.workspaces \cup {workspace},
                       current |-> workspace]
    /\ UNCHANGED <<destroy_pc, destroy_run, destroy_log, destroy_result>>
    /\ UNCHANGED notDestroyVars

\* the user selected another workspace
SelectWorkspace(workspace) ==
    /\ destroy_pc = "idle"
    /\ workspace \in provisioner.workspaces
    /\ workspace # provisioner.current
    /\ provisioner' = [provisioner EXCEPT !.current = workspace]
    /\ UNCHANGED <<destroy_pc, destroy_run, destroy_log, destroy_result>>
    /\ UNCHANGED notDestroyVars

\* destroy.rs lines 41-45, env.rs lines 68-72: the workspace is known
WithWorkspace(command, workspace, dry_run) ==
    /\ destroy_run' = [NoDestroyRun EXCEPT !.command = command,
                                           !.workspace = workspace,
                                           !.dry_run = dry_run]
    /\ IF IsDefault(workspace)
       THEN DestroyFails("ValidationError")
       ELSE /\ destroy_pc' = "workspace_list"
            /\ destroy_result' = destroy_result

\* DestroyCommand::execute, lines 24-45, with a merge request or without
DestroyExecute(merge_request, dry_run) ==
    /\ destroy_pc = "idle"
    /\ IF merge_request # NoMergeRequest
       THEN WithWorkspace("destroy", format_workspace_name(merge_request), dry_run)
       ELSE /\ destroy_run' = [NoDestroyRun EXCEPT !.command = "destroy",
                                                   !.dry_run = dry_run]
            /\ destroy_pc' = "workspace_show"
            /\ destroy_result' = destroy_result
    /\ UNCHANGED <<provisioner, destroy_log>>
    /\ UNCHANGED notDestroyVars

\* destroy.rs line 37: terraform_manager.workspace_show()?
WorkspaceShow(ok) ==
    /\ destroy_pc = "workspace_show"
    /\ destroy_log' = Append(destroy_log, Invoked("workspace_show", << >>, 0, ok))
    /\ IF ok
       THEN WithWorkspace("destroy", provisioner.current, destroy_run.dry_run)
       ELSE /\ DestroyFails("TerraformError")
            /\ destroy_run' = destroy_run
    /\ UNCHANGED provisioner
    /\ UNCHANGED notDestroyVars

\* EnvCommand::destroy, lines 56-72
EnvDestroy(merge_request_id) ==
    /\ destroy_pc = "idle"
    /\ IF validate_merge_request_id(merge_request_id)
       THEN WithWorkspace("env_destroy", format_workspace_name(merge_request_id), FALSE)
       ELSE /\ DestroyFails("ValidationError")
            /\ destroy_run' = [NoDestroyRun EXCEPT !.command = "env_destroy"]
    /\ UNCHANGED <<provisioner, destroy_log>>
    /\ UNCHANGED notDestroyVars

\* destroy.rs lines 47-51, env.rs lines 74-79: workspace_list()? and the test
DestroyWorkspaceList(ok) ==
    /\ destroy_pc = "workspace_list"
    /\ destroy_log' = Append(destroy_log, Invoked("workspace_list", << >>, 0, ok))
    /\ IF ~ok
       THEN /\ DestroyFails("TerraformError")
            /\ destroy_run' = destroy_run
       ELSE /\ destroy_run' = [destroy_run EXCEPT !.listed = provisioner.workspaces]
            /\ IF WorkspaceListed(provisioner.workspaces, destroy_run.workspace)
               THEN /\ destroy_pc' = "workspace_select"
                    /\ destroy_result' = destroy_result
               ELSE DestroyFails("ValidationError")
    /\ UNCHANGED provisioner
    /\ UNCHANGED notDestroyVars

\* destroy.rs line 54, env.rs line 84: workspace_select(&workspace)?
DestroyWorkspaceSelect(ok) ==
    /\ destroy_pc = "workspace_select"
    /\ destroy_log' = Append(destroy_log,
                             Invoked("workspace_select", destroy_run.workspace, 0, ok))
    /\ IF ok
       THEN /\ provisioner' = [provisioner EXCEPT !.current = destroy_run.workspace]
            /\ destroy_pc' = IF destroy_run.command = "destroy"
                             THEN "output_value" ELSE "terraform_destroy"
            /\ destroy_result' = destroy_result
       ELSE /\ DestroyFails("TerraformError")
            /\ provisioner' = provisioner
    /\ UNCHANGED destroy_run
    /\ UNCHANGED notDestroyVars

\* destroy.rs lines 57-72: the service name and the dependency list are read
\* from the state; a dry run prints the order and returns
OutputValue(ok) ==
    /\ destroy_pc = "output_value"
    /\ destroy_log' = Append(destroy_log, Invoked("output_value", << >>, 0, ok))
    /\ IF ~ok
       THEN /\ DestroyFails("TerraformError")
            /\ destroy_run' = destroy_run
       ELSE \E dependencies \in UNION {[1..n -> RecordedDependencies] : n \in 0..MaxRecorded} :
               IF destroy_run.dry_run
               THEN /\ destroy_run' =
                          [destroy_run EXCEPT
                              !.dependencies = dependencies,
                              !.printed = print_destroy_order(dependencies, Len(dependencies))]
                    /\ DestroySucceeds
               ELSE /\ destroy_run' =
                          [destroy_run EXCEPT
                              !.dependencies = dependencies,
                              !.next = AfterComponent(Len(dependencies) + 1).next]
                    /\ destroy_pc' = AfterComponent(Len(dependencies) + 1).pc
                    /\ destroy_result' = destroy_result
    /\ UNCHANGED provisioner
    /\ UNCHANGED notDestroyVars

\* destroy.rs lines 108-121: one iteration of destroy_components
DestroyComponent ==
    /\ destroy_pc = "destroy_components"
    /\ LET i == destroy_run.next
           parts == Split(destroy_run.dependencies[i], ":")
       IN /\ destroy_log' =
                IF ShouldDestroy(parts)
                THEN Append(destroy_log, Invoked("destroy_component", parts[1], i, TRUE))
                ELSE destroy_log
          /\ destroy_run' = [destroy_run EXCEPT !.next = AfterComponent(i).next]
          /\ destroy_pc' = AfterComponent(i).pc
    /\ UNCHANGED <<provisioner, destroy_result>>
    /\ UNCHANGED notDestroyVars

\* destroy.rs line 145, env.rs line 85: terraform_manager.destroy(..)?
TerraformDestroy(ok) ==
    /\ destroy_pc = "terraform_destroy"
    /\ destroy_log' = Append(destroy_log, Invoked("destroy", provisioner.current, 0, ok))
    /\ IF ok
       THEN /\ destroy_pc' = "select_default"
            /\ destroy_result' = destroy_result
       ELSE DestroyFails("TerraformError")
    /\ UNCHANGED <<provisioner, destroy_run>>
    /\ UNCHANGED notDestroyVars

\* destroy.rs line 148, env.rs line 86: workspace_select("default")?
SelectDefault(ok) ==
    /\ destroy_pc = "select_default"
    /\ destroy_log' = Append(destroy_log,
                             Invoked("workspace_select", DefaultWorkspace, 0, ok))
    /\ IF ok
       THEN /\ provisioner' = [provisioner EXCEPT !.current = DefaultWorkspace]
            /\ destroy_pc' = "workspace_delete"
            /\ destroy_result' = destroy_result
       ELSE /\ DestroyFails("TerraformError")
            /\ provisioner' = provisioner
    /\ UNCHANGED destroy_run
    /\ UNCHANGED notDestroyVars

\* destroy.rs line 151, env.rs line 87: workspace_delete(workspace)?
WorkspaceDelete(ok) ==
    /\ destroy_pc = "workspace_delete"
    /\ destroy_log' = Append(destroy_log,
                             Invoked("workspace_delete", destroy_run.workspace, 0, ok))
    /\ IF ok
       THEN /\ provisioner' = [provisioner EXCEPT
                                  !.workspaces = @ \ {destroy_run.workspace}]
            /\ DestroySucceeds
       ELSE /\ DestroyFails("TerraformError")
            /\ provisioner' = provisioner
    /\ UNCHANGED destroy_run
    /\ UNCHANGED notDestroyVars

DestroyNext ==
    \/ \E workspace \in EphemeralWorkspaces : CreateWorkspace(workspace)
    \/ \E workspace \in EphemeralWorkspaces \cup {DefaultWorkspace} :
          SelectWorkspace(workspace)
    \/ \E merge_request \in MergeRequests \cup {NoMergeRequest}, dry_run \in BOOLEAN :
          DestroyExecute(merge_request, dry_run)
    \/ \E ok \in BOOLEAN : WorkspaceShow(ok)
    \/ \E merge_request_id \in MergeRequests : EnvDestroy(merge_request_id)
    \/ \E ok \in BOOLEAN : DestroyWorkspaceList(ok)
    \/ \E ok \in BOOLEAN : DestroyWorkspaceSelect(ok)
    \/ \E ok \in BOOLEAN : OutputValue(ok)
    \/ DestroyComponent
    \/ \E ok \in BOOLEAN : TerraformDestroy(ok)
    \/ \E ok \in BOOLEAN : SelectDefault(ok)
    \/ \E ok \in BOOLEAN : WorkspaceDelete(ok)

(***************************************************************************)
(* State keys of ephemeral environments, for names that hold a "/"         *)
(***************************************************************************)
\* service names as a ServiceConfig may declare them
PathServices == {<<"api">>, <<"web">>, <<"api", "/", "db">>}

\* module names as a ModuleConfig may declare them
PathModules == {<<"lambda">>, <<"db", "/", "lambda">>}

\* the ephemeral ResolvedEnvironment values of either workspace
EphemeralEnvironments ==
    {EnvOk(w, Ephemeral, b) : w \in KeyWorkspaces, b \in KeyBackends}

\* a caller asks for the state key of a module in an ephemeral environment
GenerateEphemeralStateKey ==
    /\ \E self \in KeyResolvers, resolved_env \in EphemeralEnvironments,
          service \in PathServices, module \in PathModules :
          key_call' = Call(self, resolved_env, service, module)
    /\ prev_call' = key_call
    /\ rendered' = NoRendering
    /\ UNCHANGED notKeyVars

EphemeralKeyNext == GenerateEphemeralStateKey

Init ==
    /\ DepInit /\ DiscInit /\ EnvInit /\ KeyInit /\ OutInit /\ MergeInit
    /\ DeployInit /\ FindInit /\ NameInit /\ ScanInit /\ DestroyInit

SpecDeps == Init /\ [][DepNext]_vars

SpecDiscovery == Init /\ [][DiscNext]_vars

SpecEnv == Init /\ [][EnvNext]_vars

SpecKey == Init /\ [][KeyNext]_vars

SpecOutput == Init /\ [][OutNext]_vars

SpecMerge == Init /\ [][MergeNext]_vars

SpecDeploy == Init /\ [][DeployNext]_vars

SpecFind == Init /\ [][FindNext]_vars

SpecName == Init /\ [][NameNext]_vars

SpecScan == Init /\ [][ScanNext]_vars

SpecDestroy == Init /\ [][DestroyNext]_vars

SpecEphemeralKey == Init /\ [][EphemeralKeyNext]_vars

(***************************************************************************)
(* The declared dependency graph, as the claims speak of it                *)
(***************************************************************************)
\* the service a token names: the final component of a relative path, the
\* token itself otherwise
Denotes(tok) ==
    CASE tok = "c"    -> "c"
      [] tok = "../b" -> "b"
      [] tok = "../d" -> "d"
      [] tok = "../x" -> "x"
      [] tok = "d/m"  -> "d/m"

IsRelative(tok) == tok \in {"../b", "../d", "../x"}

\* token i of service n is a relative path that names no registered service,
\* or is declared by a service whose directory has no parent
DanglingRelative(n, i) ==
    /\ IsRelative(services[n].depends[i])
    /\ \/ Denotes(services[n].depends[i]) \notin DOMAIN services
       \/ services[n].path = RootDir

\* the registered services n depends on: those its tokens resolve to
DirectDeps(n) ==
    {Denotes(services[n].depends[i]) :
        i \in {j \in 1..Len(services[n].depends) : ~DanglingRelative(n, j)}}
        \cap DOMAIN services

RECURSIVE Closure(_)
\* the registered services reachable from the set S (S included)
Closure(S) ==
    LET next == S \cup UNION {DirectDeps(n) : n \in S}
    IN IF next = S THEN S ELSE Closure(next)

\* the transitive dependencies of n
TransDeps(n) == Closure(DirectDeps(n))

\* everything reachable from the target, the target included
Reachable(t) == IF t \in DOMAIN services THEN Closure({t}) ELSE {}

OnCycle(n) == n \in DOMAIN services /\ n \in TransDeps(n)

CycleReachable(t) == \E n \in Reachable(t) : OnCycle(n)

\* token i of service n does not name a registered service
Unresolved(n, i) ==
    \/ Denotes(services[n].depends[i]) \notin DOMAIN services
    \/ DanglingRelative(n, i)

DanglingReachable(t) ==
    \E n \in Reachable(t) : \E i \in 1..Len(services[n].depends) : DanglingRelative(n, i)

Resolved == dphase = "resolved"

Positions(seq, x) == {i \in 1..Len(seq) : seq[i] = x}

\* the plan lists exactly the services of S, each once, each after all of its
\* transitive dependencies
IsTopologicalPlan(order, S) ==
    /\ \A n \in S : Cardinality(Positions(order, n)) = 1
    /\ \A i \in 1..Len(order) : order[i] \in S
    /\ \A i \in 1..Len(order) : \A m \in TransDeps(order[i]) :
           \E j \in 1..(i - 1) : order[j] = m

\* A depends on B and C, B and C both depend on D
IsDiamond ==
    /\ services["a"].depends = <<"../b", "c">>
    /\ services["b"].depends = <<"../d">>
    /\ services["c"].depends = <<"../d">>
    /\ services["d"].depends = << >>

DiamondPlan(order) ==
    /\ Cardinality(Positions(order, "d")) = 1
    /\ \A i \in Positions(order, "d") :
          \A j \in Positions(order, "b") \cup Positions(order, "c") : i < j
    /\ Len(order) > 0 /\ order[Len(order)] = "a"

(***************************************************************************)
(* Claims on resolve_dependencies                                          *)
(***************************************************************************)
\* C1 (as stated): for any registry whose dependency graph reachable from the
\* target is acyclic, resolve_dependencies returns a plan listing the target
\* and every transitive dependency exactly once, each after all of its own
\* transitive dependencies; the diamond yields D once, before B and C, A last.
C1_AcyclicAlwaysPlans ==
    (Resolved /\ target \in DOMAIN services /\ ~CycleReachable(target)) =>
        /\ result.ok
        /\ IsTopologicalPlan(result.order, Reachable(target))
        /\ (IsDiamond /\ target = "a") => DiamondPlan(result.order)

\* C1 (amended): the same, for registries in which, besides, every
\* relative-path token of a service reachable from the target names a
\* registered service and is declared by a service whose directory has a parent.
C1_AcyclicResolvablePlans ==
    (Resolved /\ target \in DOMAIN services /\ ~CycleReachable(target)
        /\ ~DanglingReachable(target)) =>
        /\ result.ok
        /\ IsTopologicalPlan(result.order, Reachable(target))
        /\ (IsDiamond /\ target = "a") => DiamondPlan(result.order)

\* the diamond has been resolved from A
C1_DiamondResolved ==
    Resolved /\ IsDiamond /\ target = "a" /\ result.ok /\ Len(result.order) = 4

C3_UnresolvedFailsDependencyError ==
    (Resolved /\ \E n \in result.visited : \E i \in 1..Len(services[n].depends) :
                    Unresolved(n, i)) =>
        (~result.ok /\ result.err.kind = "DependencyError")

(***************************************************************************)
(* Claims on discovery                                                     *)
(***************************************************************************)
Discovered == kphase = "discovered"

\* the descriptor of directory p, or of one of its modules, is missing or
\* malformed
FailsToLoad(p) ==
    \/ descriptors[p].state \in {"missing", "malformed"}
    \/ \E i \in 1..Len(descriptors[p].modules) :
          descriptors[p].modules[i].local = "malformed"

ManifestNamesBadPath ==
    /\ manifest.state = "ok"
    /\ \E i \in 1..Len(manifest.services) : FailsToLoad(manifest.services[i])

\* C4: discovery from a root with a workspace manifest fails with ConfigError
\* when a service path named by the manifest has a missing or malformed
\* descriptor, and returns no registry.
C4_ManifestBadPathFails ==
    (Discovered /\ ManifestNamesBadPath) =>
        (~registry.ok /\ registry.err.kind = "ConfigError")

NoDuplicates(seq) == \A i, j \in 1..Len(seq) : seq[i] = seq[j] => i = j

ModuleNamesOf(service) == [i \in 1..Len(service.modules) |-> service.modules[i].name]

\* C5: in every registry produced by discovery no two service descriptors are
\* held under the same name, and no registered service's module list contains
\* two modules with the same name.
C5_NamesUnique ==
    (Discovered /\ registry.ok) =>
        /\ \A n \in DOMAIN registry.services : registry.services[n].name = n
        /\ \A n, m \in DOMAIN registry.services :
              registry.services[n].name = registry.services[m].name => n = m
        /\ \A n \in DOMAIN registry.services :
              NoDuplicates(ModuleNamesOf(registry.services[n]))

(***************************************************************************)
(* Claims on resolve_environment                                           *)
(***************************************************************************)
EnvResolved == ephase = "resolved"

\* the token grammar, by the token's text alone
IsStableToken(ref) == Len(ref) >= 2 /\ ref[1] = "stable" /\ ref[2] = "."
IsEphemeralToken(ref) == Len(ref) = 1 /\ ref[1] = "ephemeral"
IsEphemeralIdToken(ref) == Len(ref) >= 2 /\ ref[1] = "ephemeral" /\ ref[2] = "."
IsLiteralToken(ref) ==
    ~IsStableToken(ref) /\ ~IsEphemeralToken(ref) /\ ~IsEphemeralIdToken(ref)

\* the text after the first two atoms ("stable." or "ephemeral.")
Rest(ref) == [i \in 1..(Len(ref) - 2) |-> ref[i + 2]]

StableTable == resolver.environment_config.stable
KnownWorkspaces == Elems(resolver.available_workspaces)
EphemeralTemplate == resolver.environment_config.ephemeral.backend

\* C6: resolve_environment("stable.<name>") succeeds exactly when <name> is a
\* key of the stable table, returning that entry's workspace and backend
\* classified Stable(<name>); otherwise it fails with ValidationError listing
\* the known names and returns no environment.
C6_StableByTable ==
    (EnvResolved /\ IsStableToken(env_ref)) =>
        /\ resolved.ok <=> Rest(env_ref) \in DOMAIN StableTable
        /\ resolved.ok =>
              /\ resolved.workspace = StableTable[Rest(env_ref)].workspace
              /\ resolved.backend = StableTable[Rest(env_ref)].backend
              /\ resolved.environment_type = [kind |-> "Stable", name |-> Rest(env_ref)]
        /\ ~resolved.ok =>
              /\ resolved.kind = "ValidationError"
              /\ resolved.available = DOMAIN StableTable
              /\ resolved.workspace = << >>

\* "stable.sandbox" resolved to the workspace configured for sandbox, which is
\* not the name itself
C6_StableResolved ==
    /\ EnvResolved /\ env_ref = <<"stable", ".", "sandbox">> /\ resolved.ok
    /\ resolved.workspace = <<"sandbox", "-", "1">>

\* C7: resolve_environment("ephemeral.<id>") computes "<project>-<id>" and
\* succeeds (Ephemeral, with the ephemeral backend template) only if that name
\* is in the known-workspaces list; otherwise it fails with ValidationError. A
\* successful resolution never yields a workspace absent from the list.
C7_EphemeralIdMustBeKnown ==
    (EnvResolved /\ IsEphemeralIdToken(env_ref)) =>
        LET computed == resolver.project_name \o <<"-">> \o Rest(env_ref)
        IN /\ resolved.ok <=> computed \in KnownWorkspaces
           /\ resolved.ok =>
                 /\ resolved.workspace = computed
                 /\ resolved.workspace \in KnownWorkspaces
                 /\ resolved.environment_type = [kind |-> "Ephemeral", name |-> << >>]
                 /\ resolved.backend = EphemeralTemplate
           /\ ~resolved.ok => resolved.kind = "ValidationError"

\* "ephemeral.1" was refused because "<project>-1" is not a known workspace,
\* although other workspaces are known
C7_UnknownEphemeralRefused ==
    /\ EnvResolved /\ env_ref = <<"ephemeral", ".", "1">>
    /\ KnownWorkspaces # {} /\ ~resolved.ok

\* C8: resolve_environment("ephemeral") returns the workspace the resolver was
\* constructed with, classified Ephemeral, with the ephemeral backend template,
\* for every resolver configuration.
C8_EphemeralIsCurrent ==
    (EnvResolved /\ IsEphemeralToken(env_ref)) =>
        /\ resolved.ok
        /\ resolved.workspace = resolver.current_workspace
        /\ resolved.environment_type = [kind |-> "Ephemeral", name |-> << >>]
        /\ resolved.backend = EphemeralTemplate

\* "ephemeral" was resolved by a resolver whose current workspace is not the
\* first known workspace
C8_EphemeralResolved ==
    /\ EnvResolved /\ env_ref = <<"ephemeral">> /\ resolved.ok
    /\ Len(resolver.available_workspaces) > 0
    /\ resolver.available_workspaces[1] # resolver.current_workspace

\* C9: a token matching none of "stable.<name>", "ephemeral", "ephemeral.<id>"
\* resolves as a literal workspace name: Ephemeral (with the ephemeral backend)
\* if prefixed by "<project>-", otherwise Stable(name) with the stable-table
\* entry's backend if one is keyed by that name and the ephemeral backend
\* template otherwise. The resolved workspace is the literal itself.
C9_LiteralClassified ==
    (EnvResolved /\ IsLiteralToken(env_ref)) =>
        LET prefix == resolver.project_name \o <<"-">>
            prefixed == /\ Len(env_ref) >= Len(prefix)
                        /\ \A i \in 1..Len(prefix) : env_ref[i] = prefix[i]
        IN /\ resolved.ok
           /\ resolved.workspace = env_ref
           /\ prefixed =>
                 /\ resolved.environment_type = [kind |-> "Ephemeral", name |-> << >>]
                 /\ resolved.backend = EphemeralTemplate
           /\ ~prefixed =>
                 /\ resolved.environment_type = [kind |-> "Stable", name |-> env_ref]
                 /\ env_ref \in DOMAIN StableTable =>
                       resolved.backend = StableTable[env_ref].backend
                 /\ env_ref \notin DOMAIN StableTable =>
                       resolved.backend = EphemeralTemplate

\* a literal prefixed by "<project>-" that is also a key of the stable table
\* was resolved
C9_PrefixedLiteralResolved ==
    /\ EnvResolved /\ env_ref = <<"app", "-", "1">> /\ resolver.project_name = <<"app">>
    /\ env_ref \in DOMAIN StableTable /\ resolved.ok

\* C10: every token resolves to exactly one ResolvedEnvironment or fails:
\* exactly one of the four rules is selected, by the token text alone in grammar
\* order, and a failure of the selected rule is the failure of resolve, which
\* never falls through to another rule.
C10_OneRuleNoFallThrough ==
    EnvResolved =>
        /\ rule \in {"stable", "ephemeral", "ephemeral_id", "literal"}
        /\ rule = (IF IsStableToken(env_ref) THEN "stable"
                   ELSE IF IsEphemeralToken(env_ref) THEN "ephemeral"
                   ELSE IF IsEphemeralIdToken(env_ref) THEN "ephemeral_id"
                   ELSE "literal")
        /\ (rule = "stable" /\ Rest(env_ref) \notin DOMAIN StableTable) => ~resolved.ok
        /\ (rule = "ephemeral_id"
              /\ resolver.project_name \o <<"-">> \o Rest(env_ref) \notin KnownWorkspaces)
             => ~resolved.ok
        /\ resolved = (CASE rule = "stable" -> resolve_stable_environment(Rest(env_ref))
                         [] rule = "ephemeral" -> resolve_current_ephemeral
                         [] rule = "ephemeral_id" -> resolve_specific_ephemeral(Rest(env_ref))
                         [] OTHER -> resolve_direct_workspace(env_ref))
        /\ resolved.ok => resolved.kind = "none"
        /\ ~resolved.ok =>
              /\ resolved.kind = "ValidationError"
              /\ resolved.workspace = << >>
              /\ resolved.backend.backend_type = ""

\* the stable rule was selected and failed for a token that the literal rule
\* would have resolved
C10_SelectedRuleFailed ==
    /\ EnvResolved /\ rule = "stable" /\ ~resolved.ok
    /\ resolve_direct_workspace(env_ref).ok

(***************************************************************************)
(* Claims on generate_state_key and generate_backend_config                *)
(***************************************************************************)
KeyMade == key_call.made

BothMade == key_call.made /\ prev_call.made

RECURSIVE Flatten(_)
Flatten(seqs) == IF seqs = << >> THEN << >> ELSE Head(seqs) \o Flatten(Tail(seqs))

\* the template with each placeholder replaced by its name, all at once
Simultaneous(tpl, environment, service, module) ==
    Flatten([i \in 1..Len(tpl) |->
                CASE tpl[i] = "{environment}" -> environment
                  [] tpl[i] = "{service}" -> service
                  [] tpl[i] = "{module}" -> module
                  [] OTHER -> <<tpl[i]>>])

\* the text with one placeholder replaced
Substituted(text, placeholder, by) ==
    Flatten([i \in 1..Len(text) |->
                IF text[i] = placeholder THEN by ELSE <<text[i]>>])

\* the key template of a call on a stable environment
TemplateOf(call) ==
    IF "key_pattern" \in DOMAIN call.resolved_env.backend.config
    THEN call.resolved_env.backend.config["key_pattern"]
    ELSE <<"stable", "/", "{environment}", "/", "{service}", "/", "{module}",
           "/", "terraform.tfstate">>

IsEphemeralCall(call) == call.resolved_env.environment_type.kind = "Ephemeral"

EphemeralKey(call) ==
    <<"ephemeral", "/">> \o call.resolved_env.workspace \o <<"/">> \o call.service
    \o <<"/">> \o call.module \o <<"/", "terraform.tfstate">>

Mentions(text, placeholder) == \E i \in 1..Len(text) : text[i] = placeholder

SameKeyInputs(c1, c2) ==
    /\ c1.resolved_env.environment_type = c2.resolved_env.environment_type
    /\ c1.service = c2.service
    /\ c1.module = c2.module
    /\ ~IsEphemeralCall(c1) => TemplateOf(c1) = TemplateOf(c2)

\* C12 (as stated): two calls of generate_state_key that agree on the
\* environment classification, the service name, the module name and, for a
\* stable environment, the key template return the identical key, whatever
\* the other fields of the resolver and of the environment are.
C12_KeyDependsOnStatedInputsOnly ==
    (BothMade /\ SameKeyInputs(prev_call, key_call))
        => prev_call.key = key_call.key

\* C12 (amended): two calls that agree on the environment classification, the
\* service name, the module name, for an ephemeral environment the workspace
\* name and for a stable environment the key template return the identical
\* key, whatever the resolver and the remaining backend entries are.
C12_KeyDependsOnInputsAndWorkspace ==
    (/\ BothMade
     /\ SameKeyInputs(prev_call, key_call)
     /\ IsEphemeralCall(key_call)
            => prev_call.resolved_env.workspace = key_call.resolved_env.workspace)
        => prev_call.key = key_call.key

\* C12 witness: two calls that agree on the inputs and differ in the resolver
\* and in the backend
C12_SameInputsOtherFieldsDiffer ==
    /\ BothMade
    /\ SameKeyInputs(prev_call, key_call)
    /\ IsEphemeralCall(key_call)
    /\ prev_call.resolved_env.workspace = key_call.resolved_env.workspace
    /\ prev_call.self # key_call.self
    /\ prev_call.resolved_env.backend # key_call.resolved_env.backend
    /\ prev_call.key = key_call.key

ItemKeys(items) == {items[i].key : i \in 1..Len(items)}

\* C13: the rendering carries the backend type and exactly one entry for every
\* configured key; the entry for `key` carries the state key computed for
\* (environment, service, module), and every other entry its configured value.
C13_RenderingOverridesKey ==
    rendered.made =>
        LET config == key_call.resolved_env.backend.config
            items == rendered.config_items
        IN /\ rendered.backend_type = key_call.resolved_env.backend.backend_type
           /\ Len(items) = Cardinality(DOMAIN config)
           /\ ItemKeys(items) = DOMAIN config
           /\ \A i \in 1..Len(items) :
                 items[i].value =
                    IF items[i].key = "key" THEN key_call.key
                    ELSE config[items[i].key]

\* C13 witness: a configured `key` whose rendered value is the computed key and
\* not the configured value
C13_StaticKeyOverridden ==
    /\ rendered.made
    /\ "key" \in DOMAIN key_call.resolved_env.backend.config
    /\ \E i \in 1..Len(rendered.config_items) :
          /\ rendered.config_items[i].key = "key"
          /\ rendered.config_items[i].value = key_call.key
          /\ rendered.config_items[i].value
                # key_call.resolved_env.backend.config["key"]

(***************************************************************************)
(* Claims on the output command                                            *)
(***************************************************************************)
OutCombined == ophase = "combined"

\* the tokens of the non-ephemeral group that name a component and an
\* environment
NonEphemeralAt == {i \in 1..Len(out_tokens) :
                      /\ ~EndsWithDev(out_tokens[i])
                      /\ Cardinality({j \in 1..Len(out_tokens[i]) :
                                         out_tokens[i][j] = ":"}) = 1}

ColonAt(tok) == CHOOSE j \in 1..Len(tok) : tok[j] = ":"

\* the component name up to its first "/"
BaseService(tok) ==
    LET comp == SubSeq(tok, 1, ColonAt(tok) - 1)
        slashes == {j \in 1..Len(comp) : comp[j] = "/"}
    IN IF slashes = {} THEN comp
       ELSE SubSeq(comp, 1, (CHOOSE j \in slashes : \A k \in slashes : j <= k) - 1)

EnvironmentOf(tok) == SubSeq(tok, ColonAt(tok) + 1, Len(tok))

PairAt(i) == <<BaseService(out_tokens[i]), EnvironmentOf(out_tokens[i])>>

ReferencedPairs == {PairAt(i) : i \in NonEphemeralAt}

\* the output queries made for a pair
QueriesFor(pair) ==
    {i \in 1..Len(out_result.queries) :
        out_result.queries[i] =
            [dir |-> <<"services">> \o pair[1] \o <<"stable_deployments">>,
             env |-> pair[2]]}

HasStableLocation(pair) ==
    LET dir == <<"services">> \o pair[1] \o <<"stable_deployments">>
    IN dir \in DOMAIN out_fs /\ out_fs[dir] # "absent"

\* C14 (as stated): after a successful combination every (base-service,
\* environment) pair referenced by non-ephemeral tokens, however many, has
\* been queried exactly once.
C14_ExactlyOneQueryPerPair ==
    (OutCombined /\ out_result.ok) =>
        \A pair \in ReferencedPairs : Cardinality(QueriesFor(pair)) = 1

\* C14 (amended): a pair referenced by any number of non-ephemeral tokens is
\* never queried more than once; after a successful combination it has been
\* queried exactly once if the service's stable_deployments directory exists
\* and not at all if it does not.
C14_AtMostOneQueryPerPair ==
    OutCombined =>
        \A pair \in ReferencedPairs :
            /\ Cardinality(QueriesFor(pair)) <= 1
            /\ (out_result.ok /\ HasStableLocation(pair))
                    => Cardinality(QueriesFor(pair)) = 1
            /\ ~HasStableLocation(pair) => QueriesFor(pair) = {}

\* C14 witness: two different tokens of one pair, queried once
C14_SharedPairQueriedOnce ==
    /\ OutCombined
    /\ out_result.ok
    /\ \E i, j \in NonEphemeralAt :
          /\ out_tokens[i] # out_tokens[j]
          /\ PairAt(i) = PairAt(j)
          /\ Cardinality(QueriesFor(PairAt(i))) = 1

\* the positions at which a pair is referenced for the first time
FirstReferences ==
    {i \in NonEphemeralAt : \A j \in NonEphemeralAt : PairAt(j) = PairAt(i) => i <= j}

EphemeralAt == {i \in 1..Len(out_tokens) :
                   /\ EndsWithDev(out_tokens[i])
                   /\ Cardinality({j \in 1..Len(out_tokens[i]) :
                                      out_tokens[i][j] = ":"}) = 1}

\* the directory a token's outputs are read from
LocationAt(i) ==
    IF i \in NonEphemeralAt
    THEN <<"services">> \o BaseService(out_tokens[i]) \o <<"stable_deployments">>
    ELSE <<"services">> \o SubSeq(out_tokens[i], 1, ColonAt(out_tokens[i]) - 1)
         \o <<"temp_deployments">>

\* the positions whose locations are read, and the stated processing order:
\* the non-ephemeral group before the ephemeral group, each in input order
Processed ==
    {i \in FirstReferences \cup EphemeralAt :
        LocationAt(i) \in DOMAIN out_fs /\ out_fs[LocationAt(i)] # "absent"}

Before(i, j) ==
    \/ i \in NonEphemeralAt /\ j \in EphemeralAt
    \/ (i \in NonEphemeralAt <=> j \in NonEphemeralAt) /\ i < j

Writers(k) == {i \in Processed : k \in DOMAIN OutputsAt(LocationAt(i))}

\* the map last-writer-wins gives in the stated processing order
MergedInStatedOrder ==
    [k \in {key \in {"x", "y", "z"} : Writers(key) # {}} |->
        OutputsAt(LocationAt(CHOOSE i \in Writers(k) :
                                 \A j \in Writers(k) : j = i \/ Before(j, i)))[k]]

\* C15: the merged map is the one obtained by merging the non-ephemeral group
\* first and the ephemeral group after it, each in input order, later merges
\* winning; it is therefore determined by the token list and the outputs.
C15_MergedInStatedOrder ==
    (OutCombined /\ out_result.ok) => out_result.combined = MergedInStatedOrder

\* C16: after merge_outputs(combined, new) every key of new maps to new's
\* value and every other key of combined keeps its value;
\* {"x":"1"} then {"x":"2","y":"3"} gives {"x":"2","y":"3"}.
C16_LastWriterWins ==
    /\ DOMAIN combined = DOMAIN merge_before \cup DOMAIN merge_new.entries
    /\ \A k \in DOMAIN merge_new.entries : combined[k] = merge_new.entries[k]
    /\ \A k \in DOMAIN merge_before \ DOMAIN merge_new.entries :
          combined[k] = merge_before[k]
    /\ (/\ merge_before = [k \in {"x"} |-> "1"]
        /\ merge_new = JsonObject([k \in {"x", "y"} |-> IF k = "x" THEN "2" ELSE "3"]))
       => combined = [k \in {"x", "y"} |-> IF k = "x" THEN "2" ELSE "3"]

\* C16 witness: {"x":"1"} then {"x":"2","y":"3"}
C16_LaterMergeWon ==
    /\ merge_before = [k \in {"x"} |-> "1"]
    /\ merge_new = JsonObject([k \in {"x", "y"} |-> IF k = "x" THEN "2" ELSE "3"])
    /\ combined["x"] = "2"
    /\ combined["y"] = "3"

(***************************************************************************)
(* Claims on the deploy command                                            *)
(***************************************************************************)
\* the modules of the service a module depends on
ModuleDeps(name) ==
    UNION {dmodules[i].depends : i \in {j \in 1..Len(dmodules) : dmodules[j].name = name}}
    \cap DeclaredNames

RECURSIVE ModuleClosure(_)
ModuleClosure(S) ==
    LET next == S \cup UNION {ModuleDeps(n) : n \in S}
    IN IF next = S THEN S ELSE ModuleClosure(next)

ModulesAcyclic == \A n \in DeclaredNames : n \notin ModuleClosure(ModuleDeps(n))

\* C17: within one deployment at most one apply is in progress at any time,
\* and no module is being applied or has been applied unless every module of
\* the service it depends on has been applied (the dependencies among the
\* modules being acyclic).
C17_TopologicalAndSequential ==
    /\ Cardinality(applying) <= 1
    /\ ModulesAcyclic =>
          \A n \in applying \cup applied : ModuleDeps(n) \subseteq applied

FailedAt == {i \in 1..Len(ops) : ~ops[i].ok}

SuccessfullyApplied == {ops[i].module : i \in {j \in 1..Len(ops) :
                                                    ops[j].op = "apply" /\ ops[j].ok}}

\* C18: a failed operation is the last operation of the deployment (nothing is
\* invoked for a later module, the operation is not retried, no destroy or
\* rollback follows); the command has then returned the error of that
\* operation, and the modules applied before it are still applied.
C18_FailureAborts ==
    /\ \A i \in FailedAt : i = Len(ops)
    /\ FailedAt # {} =>
          /\ deploy_pc = "failed"
          /\ applying = {}
          /\ deploy_result = [returned |-> TRUE, ok |-> FALSE,
                              module |-> ops[Len(ops)].module,
                              op |-> ops[Len(ops)].op]
    /\ applied = SuccessfullyApplied
    /\ \A i \in 1..Len(ops) : ops[i].op # "destroy"

\* C18 witness: the second of three modules fails to apply after the first
\* was applied; nothing was run for the third
C18_SecondModuleFailed ==
    /\ deploy_pc = "failed"
    /\ Len(dmodules) = 3
    /\ applied = {dmodules[1].name}
    /\ ops[Len(ops)] = Ran(dmodules[2].name, "apply", FALSE, FALSE)
    /\ \A i \in 1..Len(ops) : ops[i].module # dmodules[3].name

(***************************************************************************)
(* Claims on find_service_by_path                                          *)
(***************************************************************************)
Found == fphase = "found"

RootedAt(path) == {n \in DOMAIN roots : roots[n] = path}

\* the services whose root is a prefix of the path
RootedAbove(path) ==
    {n \in DOMAIN roots :
        /\ Len(roots[n]) <= Len(path)
        /\ \A i \in 1..Len(roots[n]) : roots[n][i] = path[i]}

\* C19: if some registered service's root equals the path, the returned
\* service's root equals the path, even when other roots are proper prefixes
\* of it; otherwise a registered service whose root is a prefix of the path
\* is returned if there is one, and nothing if there is none.
C19_ExactMatchPreferred ==
    Found =>
        IF RootedAt(query) # {}
        THEN found.some /\ found.name \in RootedAt(query) /\ found.path = query
        ELSE IF RootedAbove(query) # {}
             THEN found.some /\ found.name \in RootedAbove(query)
                  /\ found.path = roots[found.name]
             ELSE ~found.some

\* C19 witness: a service rooted at the path is returned although another
\* service's root is a proper prefix of the path
C19_ExactOverPrefix ==
    /\ Found
    /\ found.some
    /\ found.path = query
    /\ RootedAbove(query) \ RootedAt(query) # {}

(***************************************************************************)
(* Claims on the order of the plan                                         *)
(***************************************************************************)
Reverse(seq) == [i \in 1..Len(seq) |-> seq[Len(seq) + 1 - i]]

\* C20 (as stated): the list returned by resolve_dependencies is the reverse
\* of the order in which the traversal completes services.
C20_PlanIsReverseCompletionOrder ==
    (Resolved /\ result.ok) => result.order = Reverse(result.completed)

\* C20 (amended): the list returned by resolve_dependencies is the order in
\* which the traversal completes services (post-order), not its reverse: the
\* service completed first comes first and the target, completed last, last.
C20_PlanIsCompletionOrder ==
    (Resolved /\ result.ok) =>
        /\ result.order = result.completed
        /\ result.order[Len(result.order)] = target

\* C20 witness: a plan of several services, in completion order
C20_SeveralCompleted ==
    /\ Resolved
    /\ result.ok
    /\ Len(result.completed) >= 3
    /\ result.order = result.completed
    /\ result.order # Reverse(result.completed)

(***************************************************************************)
(* C21: relative-path tokens                                               *)
(***************************************************************************)
\* the directory reached from `dir` by following the components one by one,
\* ".." leading to the parent directory; not ok when a ".." is met at the top
RECURSIVE WalkFrom(_, _, _)
WalkFrom(dir, comps, i) ==
    IF i > Len(comps) THEN [ok |-> TRUE, path |-> dir]
    ELSE IF comps[i] = ".."
         THEN IF dir = << >> THEN [ok |-> FALSE, path |-> << >>]
              ELSE WalkFrom(SubSeq(dir, 1, Len(dir) - 1), comps, i + 1)
         ELSE WalkFrom(Append(dir, comps[i]), comps, i + 1)

\* the walk the token indicates, from the declaring service's directory
Walked(call) == WalkFrom(call.current_path, Comps(call.dep_path), 1)

\* the number of levels the token climbs
Levels(tok) ==
    Cardinality({i \in 1..Len(Comps(tok)) : \A j \in 1..i : Comps(tok)[j] = ".."})

\* the token ends in the name of a directory
EndsInName(tok) == Comps(tok)[Len(Comps(tok))] # ".."

Declarations == {i \in 1..Len(content) : content[i].kind = "data"}

\* the k-th smallest element of a set of numbers
Nth(S, k) == CHOOSE i \in S : Cardinality({j \in S : j < i}) = k - 1

\* the number of lines of kind `kind` among lines i+1 .. j
CountKind(kind, i, j) == Cardinality({l \in (i + 1)..j : content[l].kind = kind})

\* the number of braces open after line j, for the block opened on line i
DepthAfter(i, j) == 1 + CountKind("config", i, j) - CountKind("close", i, j)

\* the last line of the block opened on line i: the line of its closing
\* brace, or, for a block that is not closed, the line before the next
\* declaration or the end of the text
BlockEnd(i) ==
    LET stops == {j \in (i + 1)..Len(content) :
                     DepthAfter(i, j) = 0 \/ content[j].kind = "data"}
    IN IF stops = {} THEN Len(content)
       ELSE LET j == CHOOSE s \in stops : \A t \in stops : s <= t
            IN IF content[j].kind = "data" THEN j - 1 ELSE j

\* the key = value lines inside the block opened on line i
InBlock(i) ==
    {<<content[l].a, content[l].b>> : l \in {l \in (i + 1)..BlockEnd(i) : content[l].kind = "kv"}}

\* the key = value lines inside the config block of the block opened on line i
InConfigBlock(i) ==
    {<<content[l].a, content[l].b>> :
        l \in {l \in (i + 1)..BlockEnd(i) :
                  content[l].kind = "kv" /\ DepthAfter(i, l) >= 2}}

\* the backend type declared inside the block opened on line i
DeclaredBackend(i) ==
    LET bs == {l \in (i + 1)..BlockEnd(i) : content[l].kind = "backend"}
    IN IF bs = {} THEN "s3"
       ELSE content[CHOOSE l \in bs : \A t \in bs : t <= l].a

\* C22: scan_content yields exactly one record per declaration, in order of
\* appearance, whose backend type and key/value configuration are those
\* declared inside the declaration's own block; nothing that follows the
\* block's closing brace is attributed to it.
C22_RecordsHoldOwnBlockOnly ==
    sphase = "scanned" =>
        /\ Len(scanned) = Cardinality(Declarations)
        /\ \A k \in 1..Len(scanned) :
              LET i == Nth(Declarations, k)
              IN /\ scanned[k].data_source_name = content[i].a
                 /\ scanned[k].backend_type = DeclaredBackend(i)
                 /\ InConfigBlock(i) \subseteq scanned[k].backend_config
                 /\ scanned[k].backend_config \subseteq InBlock(i)

(***************************************************************************)
(* C23: what a plan contains                                               *)
(***************************************************************************)
\* C23: every plan returned by resolve_dependencies(target) holds only the
\* target and registered services reachable from it through dependency
\* tokens, holds no name that is not a registered service, and ends with the
\* target.
C23_PlanWithinReachable ==
    (Resolved /\ result.ok) =>
        /\ \A i \in 1..Len(result.order) :
              /\ result.order[i] \in Reachable(target)
              /\ result.order[i] \in DOMAIN services
        /\ Len(result.order) > 0
        /\ result.order[Len(result.order)] = target

\* a plan of several services was returned although a registered service is
\* not reachable from the target and a visited service declares a token that
\* names no registered service
C23_PlanLeavesOthersOut ==
    /\ Resolved /\ result.ok
    /\ Len(result.order) >= 2
    /\ DOMAIN services \ Reachable(target) # {}
    /\ \E n \in result.visited : \E i \in 1..Len(services[n].depends) :
          Denotes(services[n].depends[i]) \notin DOMAIN services

(***************************************************************************)
(* C24: the state key in the rendering                                     *)
(***************************************************************************)
\* the entries of the rendering that carry the computed state key
KeyCarriers ==
    {i \in 1..Len(rendered.config_items) : rendered.config_items[i].value = key_call.key}

\* C24: the computed state key appears in the rendering of
\* generate_backend_config if and only if the backend's configuration has a
\* `key` entry, and then in that entry; the rendering of a configuration
\* without a `key` entry, such as the ephemeral backend of the deploy command,
\* has no key entry at all.
C24_KeyRenderedIffConfigured ==
    rendered.made =>
        LET config == key_call.resolved_env.backend.config
            items == rendered.config_items
        IN /\ (KeyCarriers # {}) <=> ("key" \in DOMAIN config)
           /\ \A i \in KeyCarriers : items[i].key = "key"
           /\ ("key" \notin DOMAIN config) => ("key" \notin ItemKeys(items))

\* the ephemeral backend of the deploy command (bucket and region only) was
\* rendered for an Ephemeral environment, without a key entry
C24_DefaultBackendRenderedUnkeyed ==
    /\ rendered.made
    /\ key_call.resolved_env.environment_type = Ephemeral
    /\ DOMAIN key_call.resolved_env.backend.config = {"bucket", "region"}
    /\ ItemKeys(rendered.config_items) = {"bucket", "region"}
    /\ KeyCarriers = {}

(***************************************************************************)
(* C25: the Provisioner is invoked only for a planned, real run            *)
(***************************************************************************)
\* the operations of the Provisioner
ProvisionerOps ==
    {"init", "workspace_list", "workspace_select", "workspace_new", "apply"}

\* the Provisioner operations invoked so far
ProvisionerInvoked == {i \in 1..Len(ops) : ops[i].op \in ProvisionerOps}

\* C25: a Provisioner operation is invoked only after resolve_dependencies
\* succeeded and only when dry_run is false: after a failed resolution no
\* module is initialised or applied, and a dry run invokes no Provisioner
\* operation at all.
C25_ProvisionerOnlyAfterPlan ==
    /\ (ProvisionerInvoked # {} \/ applying # {} \/ applied # {}) =>
          (deploy_run.executed /\ deploy_run.planned /\ ~deploy_run.dry_run)
    /\ (deploy_run.executed /\ (~deploy_run.planned \/ deploy_run.dry_run)) =>
          /\ ProvisionerInvoked = {}
          /\ applying = {} /\ applied = {}
          /\ deploy_pc \in {"done", "failed"}
    /\ (deploy_run.executed /\ deploy_run.prepared /\ ~deploy_run.planned) =>
          deploy_result = DeployErr("", "resolve_dependencies")

\* a dry run of a service with several modules, whose plan was resolved, has
\* returned without invoking anything
C25_DryRunReturned ==
    /\ deploy_run.executed /\ deploy_run.dry_run /\ deploy_run.planned
    /\ Len(dmodules) >= 2
    /\ deploy_pc = "done" /\ deploy_result = DeployOk
    /\ ops = << >>

(***************************************************************************)
(* C26: what the destroy command destroys, and in which order              *)
(***************************************************************************)
\* the destroy_component invocations, as positions of the log
ComponentsDestroyed ==
    {k \in 1..Len(destroy_log) : destroy_log[k].op = "destroy_component"}

\* the entry of the dependency list binds its component to "dev"
BoundToDev(tok) ==
    /\ \E j \in 1..Len(tok) : tok[j] = ":"
    /\ EnvironmentOf(tok) = <<"dev">>

\* the loop of destroy_components has run to its end
ComponentsDone ==
    \/ destroy_pc = "terraform_destroy"
    \/ \E k \in 1..Len(destroy_log) : destroy_log[k].op = "destroy"

\* C26: the destroy command handles the recorded dependency list in reverse
\* and destroys only components bound to "dev": every component destroyed is
\* that of a "dev" entry, an entry of another environment is never destroyed,
\* an entry later in the list is destroyed before any earlier one, every
\* "dev" entry is destroyed once by the end of the loop, and a dry run
\* destroys nothing and prints the entries in the same reverse order.
C26_ReverseOrderDevOnly ==
    LET deps == destroy_run.dependencies
    IN /\ \A k \in ComponentsDestroyed :
             LET tok == deps[destroy_log[k].index]
             IN /\ BoundToDev(tok)
                /\ destroy_log[k].arg = SubSeq(tok, 1, ColonAt(tok) - 1)
       /\ \A k1, k2 \in ComponentsDestroyed :
             k1 < k2 => destroy_log[k1].index > destroy_log[k2].index
       /\ ComponentsDone =>
             \A i \in 1..Len(deps) :
                BoundToDev(deps[i]) =>
                   Cardinality({k \in ComponentsDestroyed : destroy_log[k].index = i}) = 1
       /\ destroy_run.dry_run =>
             /\ ComponentsDestroyed = {}
             /\ \A k1, k2 \in 1..Len(destroy_run.printed) :
                   k1 < k2 => destroy_run.printed[k1].entry > destroy_run.printed[k2].entry
             /\ \A k \in 1..Len(destroy_run.printed) :
                   destroy_run.printed[k].skipped
                      <=> ~BoundToDev(deps[destroy_run.printed[k].entry])

\* the list api:dev, db:prod, web:dev was handled: web was destroyed, then
\* api, and db was not
C26_TwoDestroyedOneKept ==
    /\ destroy_run.dependencies = <<<<"api", ":", "dev">>, <<"db", ":", "prod">>,
                                    <<"web", ":", "dev">>>>
    /\ ComponentsDone
    /\ Len(destroy_log) >= 2
    /\ \E k \in ComponentsDestroyed :
          /\ k + 1 \in ComponentsDestroyed
          /\ destroy_log[k].arg = <<"web">>
          /\ destroy_log[k + 1].arg = <<"api">>
    /\ Cardinality(ComponentsDestroyed) = 2

(***************************************************************************)
(* C27: which workspaces the destroy commands destroy and delete           *)
(***************************************************************************)
\* the workspace list has been obtained
ListObtained ==
    \E k \in 1..Len(destroy_log) :
       destroy_log[k].op = "workspace_list" /\ destroy_log[k].ok

\* the invocations of workspace select, destroy and workspace delete
SelectDestroyDelete ==
    {k \in 1..Len(destroy_log) :
        destroy_log[k].op \in {"workspace_select", "destroy", "workspace_delete"}}

\* C27: the destroy commands never run destroy against, and never delete, the
\* workspace "default" or a workspace absent from the Provisioner's list: in
\* both cases the command fails with ValidationError before any workspace
\* select, destroy or workspace delete; and a workspace is deleted only after
\* destroy against it succeeded and "default" was then selected.
C27_OnlyListedNonDefaultDestroyed ==
    /\ \A k \in 1..Len(destroy_log) :
          destroy_log[k].op \in {"destroy", "workspace_delete"} =>
             /\ destroy_log[k].arg # DefaultWorkspace
             /\ destroy_log[k].arg \in destroy_run.listed
             /\ destroy_log[k].arg = destroy_run.workspace
    /\ (destroy_run.workspace # << >>
           /\ \/ destroy_run.workspace = DefaultWorkspace
              \/ ListObtained /\ destroy_run.workspace \notin destroy_run.listed) =>
          /\ destroy_result = DestroyErr("ValidationError")
          /\ SelectDestroyDelete = {}
    /\ \A k \in 1..Len(destroy_log) :
          destroy_log[k].op = "workspace_delete" =>
             /\ k >= 3
             /\ destroy_log[k - 2] = Invoked("destroy", destroy_log[k].arg, 0, TRUE)
             /\ destroy_log[k - 1] = Invoked("workspace_select", DefaultWorkspace, 0, TRUE)

\* a workspace that the list does not hold was refused although another
\* environment exists
C27_AbsentWorkspaceRefused ==
    /\ ListObtained
    /\ destroy_run.workspace \notin destroy_run.listed
    /\ destroy_run.listed \cap EphemeralWorkspaces # {}
    /\ destroy_result = DestroyErr("ValidationError")
    /\ destroy_pc = "failed"

(***************************************************************************)
(* C28: the operations run for one module                                  *)
(***************************************************************************)
\* operation k was run right after the successful operation `op` of the same
\* module
Follows(k, op) ==
    /\ k > 1
    /\ ops[k - 1].module = ops[k].module
    /\ ops[k - 1].op = op
    /\ ops[k - 1].ok

\* the operations `op` run for a module, as positions of ops
RunFor(module, op) ==
    {k \in 1..Len(ops) : ops[k].module = module /\ ops[k].op = op}

\* C28: for each module the deploy command invokes init, then workspace list,
\* then exactly one of workspace select (the list holds the workspace) or
\* workspace new (it does not), and apply only after that select or new
\* succeeded; workspace new is never invoked for a workspace the list holds.
C28_InitListSelectOrNewApply ==
    /\ \A k \in 1..Len(ops) :
          /\ ops[k].op = "workspace_list" => Follows(k, "init")
          /\ ops[k].op = "workspace_select" =>
                (Follows(k, "workspace_list") /\ ops[k - 1].listed)
          /\ ops[k].op = "workspace_new" =>
                (Follows(k, "workspace_list") /\ ~ops[k - 1].listed)
          /\ ops[k].op = "apply" =>
                (Follows(k, "workspace_select") \/ Follows(k, "workspace_new"))
    /\ \A name \in DeclaredNames :
          /\ \A op \in ProvisionerOps : Cardinality(RunFor(name, op)) <= 1
          /\ (name \in applying \/ RunFor(name, "apply") # {}) =>
                /\ Cardinality(RunFor(name, "init")) = 1
                /\ Cardinality(RunFor(name, "workspace_list")) = 1
                /\ Cardinality(RunFor(name, "workspace_select")
                               \cup RunFor(name, "workspace_new")) = 1
                /\ \A k \in RunFor(name, "workspace_select") \cup RunFor(name, "workspace_new") :
                      ops[k].ok
    /\ \A name \in applying :
          ops[Len(ops)].module = name
             /\ ops[Len(ops)].op \in {"workspace_select", "workspace_new"}

\* one module was applied in a workspace that the list held and was selected,
\* another in a workspace that was created
C28_SelectedAndCreated ==
    \E m1, m2 \in applied :
       /\ \E k \in RunFor(m1, "workspace_select") : ops[k].ok
       /\ \E k \in RunFor(m2, "workspace_new") : ops[k].ok

\* C29: resolve_environment fails only for a "stable.<name>" token whose name
\* is not a key of the stable table and for an "ephemeral.<id>" token whose
\* computed workspace is not in the known-workspaces list. The token
\* "ephemeral" and every literal token resolve successfully whatever the list
\* holds, to the current workspace and to the literal itself.
C29_FailsOnlyForUnknownStableOrId ==
    EnvResolved =>
        /\ ~resolved.ok <=>
              \/ /\ IsStableToken(env_ref)
                 /\ Rest(env_ref) \notin DOMAIN StableTable
              \/ /\ IsEphemeralIdToken(env_ref)
                 /\ resolver.project_name \o <<"-">> \o Rest(env_ref)
                        \notin KnownWorkspaces
        /\ IsEphemeralToken(env_ref) =>
              resolved.ok /\ resolved.workspace = resolver.current_workspace
        /\ IsLiteralToken(env_ref) =>
              resolved.ok /\ resolved.workspace = env_ref

\* a literal token was resolved to a workspace that is not in a non-empty
\* known-workspaces list
C29_UnknownLiteralResolved ==
    /\ EnvResolved /\ IsLiteralToken(env_ref) /\ resolved.ok
    /\ KnownWorkspaces # {}
    /\ resolved.workspace \notin KnownWorkspaces

\* the (workspace, service, module) triple of a call
Triple(call) == <<call.resolved_env.workspace, call.service, call.module>>

\* C30: for Ephemeral environments, two (workspace, service, module) triples
\* that differ in at least one component always yield different keys from
\* generate_state_key.
C30_EphemeralKeysDiffer ==
    (BothMade /\ IsEphemeralCall(key_call) /\ IsEphemeralCall(prev_call)
       /\ Triple(key_call) # Triple(prev_call))
        => key_call.key # prev_call.key

====
